---------------------------- MODULE Spec2Model ----------------------------
(***************************************************************************)
(* A model of the entity services of cloudbridge's Azure and OpenStack     *)
(* providers (cloudbridge/cloud/providers/{azure,openstack}/services.py).  *)
(*                                                                         *)
(* The services are stateless request translators: all durable state is    *)
(* the provider backend's.  The module has one group of variables per      *)
(* family of operations and one specification per family:                  *)
(*                                                                         *)
(*   SpecEntity   get / create / delete of one entity service              *)
(*   SpecPaging   list and find with limit and marker                      *)
(*   SpecKeyPair  key-pair create                                          *)
(*   SpecDefault  subnets.get_or_create_default, one caller                *)
(*   SpecRace     subnets.get_or_create_default, two concurrent callers    *)
(*                                                                         *)
(* Identifiers and names are strings, modelled as sequences of one-        *)
(* character strings so that split, join, substring and glob are computed. *)
(***************************************************************************)
EXTENDS Integers, Sequences, FiniteSets, TLC

VARIABLES
    \* ---- SpecEntity
    svc,      \* the entity service this run exercises
    live,     \* the backend's live resources of that service
    ret,      \* the last call on the service and its outcome
    gone,     \* resource ids whose delete returned True, no create since
    \* ---- SpecPaging
    items,    \* the backend's resources, in the backend's order
    pg,       \* a caller's paging loop over list or find
    \* ---- SpecKeyPair
    kprov,    \* the provider whose key-pair service is exercised
    keys,     \* the backend's key-pair entities
    kcall,    \* per caller: the create call in progress or its outcome
    \* ---- SpecDefault, SpecRace
    dprov,    \* the provider whose subnet service is exercised
    nets,     \* the backend's networks
    subnets,  \* the backend's subnets
    routers,  \* the backend's routers
    dcall,    \* per caller: the get_or_create_default call in progress
    drets,    \* what the completed calls returned, in order of completion
    \* ---- SpecInstance, SpecLaunchFault
    ilc,      \* the launch configuration a caller builds
    ireq,     \* the arguments of the instance create call
    irun,     \* the create call: position and locals
    icalls,   \* the provider calls the create call has issued, in order
    icloud,   \* the resources provisioned in the backend by those calls
    \* ---- SpecNamed
    nsvc,     \* the service whose create/get by name is exercised
    nstore,   \* the backend's resources of that service
    nret      \* the last call on the service and its outcome

entityVars == <<svc, live, ret, gone>>
pagingVars == <<items, pg>>
keyVars == <<kprov, keys, kcall>>
defaultVars == <<dprov, nets, subnets, routers, dcall, drets>>
instVars == <<ilc, ireq, irun, icalls, icloud>>
namedVars == <<nsvc, nstore, nret>>
vars == <<svc, live, ret, gone, items, pg, kprov, keys, kcall,
          dprov, nets, subnets, routers, dcall, drets,
          ilc, ireq, irun, icalls, icloud, nsvc, nstore, nret>>

----------------------------------------------------------------------------
(* Bounds *)

MaxIdLen == 5      \* longest identifier string a caller passes
MaxItems == 3      \* most resources the backend holds when paged
MaxLimit == 3      \* largest page size a caller asks for
MaxPages == 4      \* most pages a caller fetches in one loop
MaxKeys == 4       \* most key-pair entities the store holds
MaxCalls == 3      \* most get_or_create_default calls in one run
MaxDevices == 2    \* most block devices in a launch configuration
MaxNamed == 3      \* most resources a named service holds
MaxPartLen == 2    \* longest network or subnet name of a composite id
MaxTail == 2       \* most characters of user data after its first line start

----------------------------------------------------------------------------
(* Strings *)

Chars == {"a", "|", "$"}

Seqs(S, n) == UNION {[1..k -> S] : k \in 0..n}

IdStrings == Seqs(Chars, MaxIdLen)

\* The reserved delimiter of the composite subnet identifier, '|$|'.
Delim == <<"|", "$", "|">>

\* str.find(d, i): the first index >= i at which d occurs in s, 0 if none.
RECURSIVE FindFrom(_, _, _)
FindFrom(s, d, i) ==
    IF i + Len(d) - 1 > Len(s) THEN 0
    ELSE IF SubSeq(s, i, i + Len(d) - 1) = d THEN i
    ELSE FindFrom(s, d, i + 1)

\* subnet_id.split('|$|'): the parts between the non-overlapping
\* occurrences of the delimiter, scanning from the left.
RECURSIVE Split(_)
Split(s) ==
    LET j == FindFrom(s, Delim, 1) IN
    IF j = 0 THEN <<s>>
    ELSE <<SubSeq(s, 1, j - 1)>> \o Split(SubSeq(s, j + Len(Delim), Len(s)))

\* The composite identifier of the subnet s of network n.
ComposeId(n, s) == n \o Delim \o s

----------------------------------------------------------------------------
(* The provider backends, as the services see them *)

\* What a provider call gives back: a value, or an exception of class exc.
Answer(ok, exc) == [ok |-> ok, exc |-> exc]

\* A call through azure_client to Azure Resource Manager.  Every failed
\* request raises CloudError: the resource is not there, or the request was
\* refused or throttled (fault).
ArmCall(present, fault) ==
    IF fault THEN Answer(FALSE, "CloudError")
    ELSE IF present THEN Answer(TRUE, "")
    ELSE Answer(FALSE, "CloudError")

\* A call to nova or cinder: NotFound for a missing resource, another
\* ClientException for a refused or throttled request.
NovaCall(present, fault) ==
    IF fault THEN Answer(FALSE, "ClientException")
    ELSE IF present THEN Answer(TRUE, "")
    ELSE Answer(FALSE, "NotFound")

\* A call to neutron: every failure is a NeutronClientException.
NeutronCall(present, fault) ==
    IF fault \/ ~present THEN Answer(FALSE, "NeutronClientException")
    ELSE Answer(TRUE, "")

\* The outcome of a service call: what it returns, or the exception it lets
\* through.  kind: "none", "resource", "true", "false", "raise".
Out(kind, exc) == [kind |-> kind, exc |-> exc]

\* try: return Resource(call()) / except <handler>: return None
TryGet(r, handler) ==
    IF r.ok THEN Out("resource", "")
    ELSE IF r.exc = handler THEN Out("none", "")
    ELSE Out("raise", r.exc)

\* The resource identifiers the backends hand out.
ResIds == {<<"a">>, <<"a", "a">>}

\* Azure subnets live under (network name, subnet name).
SubnetKeys == {<< <<"a">>, <<"a">> >>}

Services == {"az_sg", "az_vol", "az_snap", "az_net", "az_subnet",
             "os_sg", "os_vol", "os_subnet"}

Deletable == {"az_sg", "az_net", "az_subnet", "os_sg", "os_subnet"}

Pool(s) == IF s = "az_subnet" THEN SubnetKeys ELSE ResIds

----------------------------------------------------------------------------
(* get *)

AzureSecurityGroupService_get(l, id, fault) ==
    TryGet(ArmCall(id \in l, fault), "CloudError")

AzureVolumeService_get(l, id, fault) ==
    TryGet(ArmCall(id \in l, fault), "CloudError")

AzureSnapshotService_get(l, id, fault) ==
    TryGet(ArmCall(id \in l, fault), "CloudError")

AzureNetworkService_get(l, id, fault) ==
    TryGet(ArmCall(id \in l, fault), "CloudError")

\* A get that takes the parts of the id in the other order.
SubnetGetSwapsParts(l, id, fault) ==
    LET parts == Split(id) IN
    IF Len(parts) < 2 THEN Out("raise", "IndexError")
    ELSE TryGet(ArmCall(<<parts[2], parts[1]>> \in l, fault), "CloudError")

\* subnet_id_parts[1] is read inside the try, whose only handler is CloudError.
AzureSubnetService_get(l, id, fault) ==
    LET parts == Split(id) IN
    IF Len(parts) < 2 THEN Out("raise", "IndexError")
    ELSE TryGet(ArmCall(<<parts[1], parts[2]>> \in l, fault), "CloudError")

OpenStackSecurityGroupService_get(l, id, fault) ==
    TryGet(NovaCall(id \in l, fault), "NotFound")

OpenStackVolumeService_get(l, id, fault) ==
    TryGet(NovaCall(id \in l, fault), "NotFound")

\* next((s for s in self if s.id == subnet_id), None): the service is
\* iterated, which lists the subnets.
OpenStackSubnetService_get(l, id, fault) ==
    LET r == NeutronCall(TRUE, fault) IN
    IF ~r.ok THEN Out("raise", r.exc)
    ELSE IF id \in l THEN Out("resource", "")
    ELSE Out("none", "")

GetOutcome(s, l, id, fault) ==
    CASE s = "az_sg"     -> AzureSecurityGroupService_get(l, id, fault)
      [] s = "az_vol"    -> AzureVolumeService_get(l, id, fault)
      [] s = "az_snap"   -> AzureSnapshotService_get(l, id, fault)
      [] s = "az_net"    -> AzureNetworkService_get(l, id, fault)
      [] s = "az_subnet" -> AzureSubnetService_get(l, id, fault)
      [] s = "os_sg"     -> OpenStackSecurityGroupService_get(l, id, fault)
      [] s = "os_vol"    -> OpenStackVolumeService_get(l, id, fault)
      [] s = "os_subnet" -> OpenStackSubnetService_get(l, id, fault)

----------------------------------------------------------------------------
(* delete: the outcome and the backend afterwards *)

Done(out, l) == [out |-> out, live |-> l]

\* A delete that reports True for a resource that is not there.
ArmDeleteConverges(l, key, fault) ==
    IF fault THEN Done(Out("false", ""), l) ELSE Done(Out("true", ""), l \ {key})

\* try: delete(); return True / except CloudError: return False
ArmDelete(l, key, fault) ==
    LET r == ArmCall(key \in l, fault) IN
    IF r.ok THEN Done(Out("true", ""), l \ {key})
    ELSE IF r.exc = "CloudError" THEN Done(Out("false", ""), l)
    ELSE Done(Out("raise", r.exc), l)

AzureSecurityGroupService_delete(l, id, fault) == ArmDelete(l, id, fault)

AzureNetworkService_delete(l, id, fault) == ArmDelete(l, id, fault)

AzureSubnetService_delete(l, id, fault) ==
    LET parts == Split(id) IN
    IF Len(parts) < 2 THEN Done(Out("raise", "IndexError"), l)
    ELSE ArmDelete(l, <<parts[1], parts[2]>>, fault)

\* OpenStackSecurityGroup.delete(): the nova call behind sg.delete().
NovaDelete(l, id, fault) ==
    LET r == NovaCall(id \in l, fault) IN
    IF r.ok THEN Done(Out("true", ""), l \ {id})
    ELSE Done(Out("raise", r.exc), l)

\* A delete that reports True for a group it found and never deletes it.
SecurityGroupDeleteSkipsCall(l, id, fault, fault2) ==
    LET sg == OpenStackSecurityGroupService_get(l, id, fault) IN
    IF sg.kind = "raise" THEN Done(sg, l) ELSE Done(Out("true", ""), l)

\* sg = self.get(group_id); if sg: sg.delete(); return True
OpenStackSecurityGroupService_delete(l, id, fault, fault2) ==
    LET sg == OpenStackSecurityGroupService_get(l, id, fault) IN
    IF sg.kind = "raise" THEN Done(sg, l)
    ELSE IF sg.kind = "resource"
         THEN LET d == NovaDelete(l, id, fault2) IN
              IF d.out.kind = "raise" THEN d ELSE Done(Out("true", ""), d.live)
    ELSE Done(Out("true", ""), l)

\* subnet_id in self.list(): the id, a string, is compared with the
\* subnet objects of the list, and equals none of them.
SubnetIdInList(id, listed) == FALSE

\* neutron.delete_subnet(subnet_id), then the subnets are listed again and
\* True is returned if the id is not in the list.
OpenStackSubnetService_delete(l, id, fault, fault2) ==
    LET r == NeutronCall(id \in l, fault) IN
    IF ~r.ok THEN Done(Out("raise", r.exc), l)
    ELSE LET after == l \ {id}
             ls    == NeutronCall(TRUE, fault2) IN
         IF ~ls.ok THEN Done(Out("raise", ls.exc), after)
         ELSE IF ~SubnetIdInList(id, after) THEN Done(Out("true", ""), after)
         ELSE Done(Out("false", ""), after)

DeleteOutcome(s, l, id, fault, fault2) ==
    CASE s = "az_sg"     -> AzureSecurityGroupService_delete(l, id, fault)
      [] s = "az_net"    -> AzureNetworkService_delete(l, id, fault)
      [] s = "az_subnet" -> AzureSubnetService_delete(l, id, fault)
      [] s = "os_sg"     -> OpenStackSecurityGroupService_delete(l, id, fault, fault2)
      [] s = "os_subnet" -> OpenStackSubnetService_delete(l, id, fault, fault2)

----------------------------------------------------------------------------
(* create: the backend afterwards.  key is the identifier the new resource  *)
(* gets: the name given (Azure security group, Azure subnet), the name with *)
(* its random suffix (Azure network) or the id the server assigns.          *)

AzureSecurityGroupService_create(l, key) == l \cup {key}

AzureNetworkService_create(l, key) == l \cup {key}

AzureSubnetService_create(l, key) == l \cup {key}

OpenStackSecurityGroupService_create(l, key) == l \cup {key}

OpenStackSubnetService_create(l, key) == l \cup {key}

CreateOutcome(s, l, key) ==
    CASE s = "az_sg"     -> AzureSecurityGroupService_create(l, key)
      [] s = "az_net"    -> AzureNetworkService_create(l, key)
      [] s = "az_subnet" -> AzureSubnetService_create(l, key)
      [] s = "os_sg"     -> OpenStackSecurityGroupService_create(l, key)
      [] s = "os_subnet" -> OpenStackSubnetService_create(l, key)

\* The identifier under which callers know the resource stored under key.
IdOf(s, key) == IF s = "az_subnet" THEN ComposeId(key[1], key[2]) ELSE key

\* id is the identifier of a live resource.
Resolves(s, l, id) == \E key \in l : IdOf(s, key) = id

\* id is an identifier the service gives to a resource, live or not.
Known(s, id) == \E key \in Pool(s) : IdOf(s, key) = id

\* The ids in g that name the resource stored under key.
Naming(s, g, key) == {id \in g : IdOf(s, key) = id}

----------------------------------------------------------------------------
(* SpecEntity: calls on one entity service *)

NoCall ==
    [op |-> "none", known |-> FALSE, resolves |-> FALSE, after |-> FALSE,
     fault |-> FALSE, out |-> Out("none", ""), still |-> FALSE]

\* What is recorded of a call: whether the id named a resource (known), a
\* live one (resolves), one whose delete had returned True with no create
\* since (after), whether the backend failed a request of the call (fault),
\* the outcome, and whether the id names a live resource when the call is
\* over (still), l being the backend then.
Call(op, id, fault, out, l) ==
    [op |-> op, known |-> Known(svc, id), resolves |-> Resolves(svc, live, id),
     after |-> id \in gone, fault |-> fault, out |-> out,
     still |-> Resolves(svc, l, id)]

\* What each group of variables is in a specification that does not use it.
EntityIdle ==
    /\ svc = "none"
    /\ live = {}
    /\ ret = NoCall
    /\ gone = {}

PagingIdle ==
    /\ items = <<>>
    /\ pg = [on |-> FALSE]

Callers == {1, 2}

NoFrame == [pc |-> "idle"]

KeyIdle ==
    /\ kprov = "none"
    /\ keys = {}
    /\ kcall = [c \in Callers |-> NoFrame]

DefaultIdle ==
    /\ dprov = "none"
    /\ nets = {}
    /\ subnets = {}
    /\ routers = {}
    /\ dcall = [c \in Callers |-> NoFrame]
    /\ drets = <<>>

InstanceIdle ==
    /\ ilc = [on |-> FALSE]
    /\ ireq = [on |-> FALSE]
    /\ irun = NoFrame
    /\ icalls = <<>>
    /\ icloud = {}

NamedIdle ==
    /\ nsvc = "none"
    /\ nstore = {}
    /\ nret = [op |-> "none"]

InitEntity ==
    /\ svc \in Services
    /\ live \in SUBSET Pool(svc)
    /\ ret = NoCall
    /\ gone = {}
    /\ PagingIdle
    /\ KeyIdle
    /\ DefaultIdle
    /\ InstanceIdle
    /\ NamedIdle

Get(id, fault) ==
    /\ svc \in Services
    /\ ret' = Call("get", id, fault, GetOutcome(svc, live, id, fault), live)
    /\ UNCHANGED <<svc, live, gone>>
    /\ UNCHANGED <<pagingVars, keyVars, defaultVars, instVars, namedVars>>

Delete(id, fault, fault2) ==
    /\ svc \in Deletable
    /\ LET d == DeleteOutcome(svc, live, id, fault, fault2) IN
       /\ live' = d.live
       /\ ret' = Call("delete", id, fault \/ fault2, d.out, d.live)
       /\ gone' = IF d.out.kind = "true" /\ Known(svc, id)
                  THEN gone \cup {id} ELSE gone
    /\ UNCHANGED svc
    /\ UNCHANGED <<pagingVars, keyVars, defaultVars, instVars, namedVars>>

\* OpenStack ids are assigned by the server and not handed out again.
Create(key) ==
    /\ svc \in Deletable
    /\ key \in Pool(svc) \ live
    /\ svc \in {"os_sg", "os_subnet"} => IdOf(svc, key) \notin gone
    /\ live' = CreateOutcome(svc, live, key)
    /\ ret' = Call("create", IdOf(svc, key), FALSE, Out("resource", ""),
                   CreateOutcome(svc, live, key))
    /\ gone' = gone \ Naming(svc, gone, key)
    /\ UNCHANGED svc
    /\ UNCHANGED <<pagingVars, keyVars, defaultVars, instVars, namedVars>>

NextEntity ==
    \/ \E id \in IdStrings, fault \in BOOLEAN : Get(id, fault)
    \/ \E id \in IdStrings, fault \in BOOLEAN,
          fault2 \in IF svc \in {"os_sg", "os_subnet"} THEN BOOLEAN ELSE {FALSE} :
            Delete(id, fault, fault2)
    \/ \E key \in Pool(svc) : Create(key)

SpecEntity == InitEntity /\ [][NextEntity]_vars

----------------------------------------------------------------------------
(* Claims on get and delete *)

\* C1: for every entity service and every id that does not resolve to a live
\* resource, get(id) returns None and raises nothing, whatever id string the
\* caller passes.
C1_GetOfAbsentIsNone ==
    (ret.op = "get" /\ ~ret.fault /\ ~ret.resolves) => ret.out.kind = "none"

\* C2: when the backend fails a get with an error other than not-found, get
\* propagates the failure; it returns None only when the resource is absent.
C2_GetPropagatesFailure ==
    ret.op = "get" =>
        /\ ret.fault => ret.out.kind = "raise"
        /\ ret.out.kind = "none" => ~ret.resolves

\* C3: delete is idempotent: delete(R.id) returns True the first time and
\* again the second time, and also for an id that never existed.
C3_DeleteReturnsTrue ==
    (ret.op = "delete" /\ ~ret.fault /\ ret.known) => ret.out.kind = "true"

\* C4: once delete(R.id) has returned True, and until R is created again,
\* get(R.id) never returns the resource: it returns None whenever the
\* backend answers the request.
C4_GetAfterDelete ==
    (ret.op = "get" /\ ret.after) =>
        /\ ret.out.kind # "resource"
        /\ ~ret.fault => ret.out.kind = "none"

\* A get, answered by the backend, of an id whose delete had returned True.
C4_Witness ==
    /\ ret.op = "get" /\ ret.after /\ ~ret.fault
    /\ ret.out.kind = "none"
    /\ svc = "os_sg"

AzureDeletable == {"az_sg", "az_net", "az_subnet"}

C27_DeleteReportsWhatIsLeft ==
    (ret.op = "delete" /\ svc \in {"os_subnet", "os_sg"}) =>
        /\ ret.out.kind = "true" => ~ret.still
        /\ (svc = "os_subnet" /\ ret.still) => ret.out.kind = "false"

----------------------------------------------------------------------------
(* Paged results *)

\* Resource names and name filters.  In a glob filter "*" and "?" are
\* wildcards; the other policies take every character literally.
Names == {<<"a">>, <<"b">>, <<"a", "b">>}

Filters == Names \cup {<<"a", "*">>}

\* The backend's resources: distinct ids, here the position in the
\* backend's order.
ItemLists ==
    UNION {{[i \in 1..n |-> [id |-> i, name |-> nm[i]]] : nm \in [1..n -> Names]}
           : n \in 0..MaxItems}

None == 0

Take(s, n) == SubSeq(s, 1, IF n < Len(s) THEN n ELSE Len(s))

Ids(s) == [i \in 1..Len(s) |-> s[i].id]

\* The items after the one whose id is the marker; all of them without a
\* marker, none if no item has that id.
RECURSIVE AfterMarker(_, _)
AfterMarker(s, marker) ==
    IF marker = None THEN s
    ELSE IF s = <<>> THEN <<>>
    ELSE IF s[1].id = marker THEN Tail(s)
    ELSE AfterMarker(Tail(s), marker)

\* A page: its items, the marker to continue with (None when exhausted)
\* and the total_results hint.
Page(data, marker, total) == [data |-> data, marker |-> marker, total |-> total]

\* ClientPagedResultList(provider, objects, limit, marker): the whole result
\* is at hand and is sliced by position.
ClientPagedResultList(objects, limit, marker) ==
    LET rest == AfterMarker(objects, marker)
        data == Take(rest, limit) IN
    Page(data,
         IF Len(rest) > limit THEN data[Len(data)].id ELSE None,
         Len(objects))

\* oshelpers.os_result_limit: one more than the page size is requested, to
\* learn whether another page follows.
os_result_limit(limit) == limit + 1

\* oshelpers.to_server_paged_list(provider, objects, limit)
to_server_paged_list(objects, limit) ==
    LET data == Take(objects, limit) IN
    Page(data,
         IF Len(objects) > limit THEN objects[limit].id ELSE None,
         Len(data))

\* The provider's own paging: at most limit items after the marker.
ServerList(all, limit, marker) == Take(AfterMarker(all, marker), limit)

\* for x in self: the service iterated, page after page, to the end.
Iterate(all) == all

----------------------------------------------------------------------------
(* Matching policies *)

Exact(f, name) == name = f

\* f in name
Substring(f, name) ==
    \E i \in 1..(Len(name) + 1) :
        /\ i + Len(f) - 1 <= Len(name)
        /\ SubSeq(name, i, i + Len(f) - 1) = f

\* fnmatch: the whole name matches the pattern.
RECURSIVE Glob(_, _)
Glob(f, name) ==
    IF f = <<>> THEN name = <<>>
    ELSE IF Head(f) = "*"
         THEN Glob(Tail(f), name) \/ (name # <<>> /\ Glob(f, Tail(name)))
    ELSE /\ name # <<>>
         /\ Head(f) = "?" \/ Head(f) = Head(name)
         /\ Glob(Tail(f), Tail(name))

\* re.search(fnmatch.translate(f), name): translate anchors the pattern at
\* the end of the string only (\Z), and search tries every start.
ReSearchTranslate(f, name) ==
    \E i \in 1..(Len(name) + 1) : Glob(f, SubSeq(name, i, Len(name)))

\* img.name and re.search(regex, img.name)
ImageMatch(f, name) == name # <<>> /\ ReSearchTranslate(f, name)

\* The test a comprehension applies to a name.
Test(kind, f, name) ==
    CASE kind = "exact"     -> Exact(f, name)
      [] kind = "substring" -> Substring(f, name)
      [] kind = "search"    -> ImageMatch(f, name)

\* [x for x in s if test(x.name)]
RECURSIVE SelectItems(_, _, _)
SelectItems(s, kind, f) ==
    IF s = <<>> THEN <<>>
    ELSE (IF Test(kind, f, s[1].name) THEN <<s[1]>> ELSE <<>>)
         \o SelectItems(Tail(s), kind, f)

\* azure_helpers.filter(objects, {'Name': name})
azure_helpers_filter(objects, f) == SelectItems(objects, "substring", f)

----------------------------------------------------------------------------
(* list and find: all is the backend's content, the result is a page *)

\* list_disks() returns everything; the page is cut client-side.
AzureVolumeService_list(all, limit, marker) ==
    ClientPagedResultList(all, limit, marker)

\* A list that asks the server for the first page whatever the marker.
VolumeListDropsMarker(all, limit, marker) ==
    to_server_paged_list(ServerList(all, os_result_limit(limit), None), limit)

\* cinder pages: limit + 1 items after the marker are requested.
OpenStackVolumeService_list(all, limit, marker) ==
    to_server_paged_list(ServerList(all, os_result_limit(limit), marker), limit)

\* Every image is fetched and filtered; marker is not used.
OpenStackImageService_find(all, f, limit, marker) ==
    to_server_paged_list(SelectItems(Iterate(all), "search", f), limit)

\* Cinder ignores the name: one server page is fetched, then filtered.
OpenStackSnapshotService_find(all, f, limit, marker) ==
    to_server_paged_list(
        SelectItems(ServerList(all, os_result_limit(limit), marker), "exact", f),
        limit)

\* One server page of containers is fetched, then filtered.
OpenStackObjectStoreService_find(all, f, limit, marker) ==
    to_server_paged_list(
        SelectItems(ServerList(all, os_result_limit(limit), marker), "substring", f),
        limit)

AzureSnapshotService_find(all, f, limit, marker) ==
    ClientPagedResultList(azure_helpers_filter(all, f), limit, marker)

OpenStackRouterService_find(all, f, limit, marker) ==
    ClientPagedResultList(SelectItems(Iterate(all), "exact", f), limit, marker)

ListServices == {"az_vol", "os_vol"}

FindServices == {"os_image", "os_snap", "os_bucket", "az_snap", "os_router"}

ListPage(s, all, limit, marker) ==
    CASE s = "az_vol" -> AzureVolumeService_list(all, limit, marker)
      [] s = "os_vol" -> OpenStackVolumeService_list(all, limit, marker)

FindPage(s, all, f, limit, marker) ==
    CASE s = "os_image"  -> OpenStackImageService_find(all, f, limit, marker)
      [] s = "os_snap"   -> OpenStackSnapshotService_find(all, f, limit, marker)
      [] s = "os_bucket" -> OpenStackObjectStoreService_find(all, f, limit, marker)
      [] s = "az_snap"   -> AzureSnapshotService_find(all, f, limit, marker)
      [] s = "os_router" -> OpenStackRouterService_find(all, f, limit, marker)

\* The test each find applies to a resource's name.
KindOf(s) ==
    CASE s = "os_image"  -> "search"
      [] s = "os_snap"   -> "exact"
      [] s = "os_bucket" -> "substring"
      [] s = "az_snap"   -> "substring"
      [] s = "os_router" -> "exact"

\* The matching policy of each find: glob where the filter is a pattern,
\* substring or exact elsewhere.
Policy(s, f, name) ==
    CASE s = "os_image"  -> Glob(f, name)
      [] s = "os_snap"   -> Exact(f, name)
      [] s = "os_bucket" -> Substring(f, name)
      [] s = "az_snap"   -> Substring(f, name)
      [] s = "os_router" -> Exact(f, name)

----------------------------------------------------------------------------
(* SpecPaging: a caller pages through list or find on an unchanged backend *)

InitPaging ==
    /\ items \in ItemLists
    /\ pg = [on |-> FALSE]
    /\ EntityIdle
    /\ KeyIdle
    /\ DefaultIdle
    /\ InstanceIdle
    /\ NamedIdle

\* The loop after a call made with marker prev returned page; seen is what
\* the earlier pages held.
Loop(op, s, f, limit, prev, page, seen, n) ==
    [on |-> TRUE, op |-> op, svc |-> s, name |-> f, limit |-> limit,
     prev |-> prev, page |-> page, acc |-> seen \o Ids(page.data), pages |-> n]

ListStart(s, limit) ==
    /\ pg' = Loop("list", s, <<>>, limit, None,
                  ListPage(s, items, limit, None), <<>>, 1)
    /\ UNCHANGED <<items, entityVars, keyVars, defaultVars, instVars, namedVars>>

FindStart(s, f, limit) ==
    /\ pg' = Loop("find", s, f, limit, None,
                  FindPage(s, items, f, limit, None), <<>>, 1)
    /\ UNCHANGED <<items, entityVars, keyVars, defaultVars, instVars, namedVars>>

\* The same call again, with the marker of the page before.
NextPage ==
    /\ pg.on
    /\ pg.page.marker # None
    /\ pg.pages < MaxPages
    /\ LET m == pg.page.marker
           page == IF pg.op = "list"
                   THEN ListPage(pg.svc, items, pg.limit, m)
                   ELSE FindPage(pg.svc, items, pg.name, pg.limit, m) IN
       pg' = Loop(pg.op, pg.svc, pg.name, pg.limit, m, page, pg.acc, pg.pages + 1)
    /\ UNCHANGED <<items, entityVars, keyVars, defaultVars, instVars, namedVars>>

NextPaging ==
    \/ \E s \in ListServices, limit \in 1..MaxLimit : ListStart(s, limit)
    \/ \E s \in FindServices, f \in Filters, limit \in 1..MaxLimit :
          FindStart(s, f, limit)
    \/ NextPage

SpecPaging == InitPaging /\ [][NextPaging]_vars

----------------------------------------------------------------------------
(* Claims on list and find *)

IsPrefix(s, t) == Len(s) <= Len(t) /\ s = SubSeq(t, 1, Len(s))

\* C5: on an unchanged backend, for any page size, the pages of
\* list(limit, marker) up to the exhausted marker hold every resource
\* exactly once (at any time: the resources up to the last one seen).
C5_PaginationComplete ==
    (pg.on /\ pg.op = "list") =>
        /\ IsPrefix(pg.acc, Ids(items))
        /\ pg.page.marker = None => pg.acc = Ids(items)

\* A list loop that took several pages and is exhausted.
C5_Witness ==
    /\ pg.on /\ pg.op = "list" /\ pg.svc = "os_vol"
    /\ pg.page.marker = None
    /\ pg.pages >= 3
    /\ Len(pg.acc) = MaxItems

\* C6: find called again with the marker of the previous page returns the
\* matching items after the last item seen (no restart), and no match is
\* dropped: when the marker is exhausted every match has been returned.
C6_FindResumes ==
    (pg.on /\ pg.op = "find") =>
        /\ pg.prev # None =>
              Ids(pg.page.data) =
                  Ids(Take(SelectItems(AfterMarker(items, pg.prev), KindOf(pg.svc),
                                       pg.name),
                           pg.limit))
        /\ pg.page.marker = None =>
              pg.acc = Ids(SelectItems(items, KindOf(pg.svc), pg.name))

\* C7: every resource find returns is in the unfiltered list and satisfies
\* the service's matching policy; when nothing matches the result is empty
\* and total_results is 0.
C7_FindNarrowsList ==
    (pg.on /\ pg.op = "find") =>
        /\ \A i \in 1..Len(pg.page.data) :
              /\ \E j \in 1..Len(items) : items[j] = pg.page.data[i]
              /\ Policy(pg.svc, pg.name, pg.page.data[i].name)
        /\ (\A j \in 1..Len(items) : ~Policy(pg.svc, pg.name, items[j].name)) =>
              pg.page.data = <<>> /\ pg.page.total = 0

----------------------------------------------------------------------------
(* Key pairs.  Azure keeps them as table entities whose RowKey is a fresh  *)
(* uuid, so the table does not keep names unique; nova keys them by name.  *)

KeyNames == {"k1", "k2", "k3"}

KeyProviders == {"azure", "openstack"}

NamesOf(store) == {e.name : e \in store}

\* A new entity: the RowKey and the generated key material are fresh.
Entity(store, name) ==
    [row |-> Cardinality(store) + 1, name |-> name, key |-> Cardinality(store) + 1]

\* get_public_key answers; an entity of that name or None.
AzureKeyPairService_get(store, name) ==
    IF name \in NamesOf(store) THEN Out("resource", "") ELSE Out("none", "")

\* A create that takes every name as free.
CreateSkipsExistenceCheck(store, name) == FALSE

\* key_pair = self.get(name); if key_pair: raise
AzureKeyPairService_create_exists(store, name) ==
    AzureKeyPairService_get(store, name).kind = "resource"

\* nova.keypairs.create: 409 Conflict on a name in use.
OpenStackKeyPairService_create(store, name) ==
    IF name \in NamesOf(store)
    THEN Done(Out("raise", "Conflict"), store)
    ELSE Done(Out("resource", ""), store \cup {Entity(store, name)})

ConflictErrors == {"Exception", "Conflict"}

InFlight == Cardinality({c \in Callers : kcall[c].pc \notin {"idle", "done"}})

KeyFrame(pc, name, existed, before, inserted) ==
    [pc |-> pc, name |-> name, existed |-> existed, before |-> before,
     inserted |-> inserted]

\* The call of caller c is over with outcome out; kept tells whether the
\* store is what it was when the call began.
KeyDone(c, out, after) ==
    [pc |-> "done", name |-> kcall[c].name, existed |-> kcall[c].existed,
     inserted |-> kcall[c].inserted, out |-> out,
     kept |-> after = kcall[c].before]

KpBegin(c, name) ==
    /\ kcall[c].pc \in {"idle", "done"}
    /\ Cardinality(keys) + InFlight < MaxKeys
    /\ kcall' = [kcall EXCEPT ![c] =
                    KeyFrame(IF kprov = "azure" THEN "check" ELSE "nova",
                             name, name \in NamesOf(keys), keys, FALSE)]
    /\ UNCHANGED <<kprov, keys>>
    /\ UNCHANGED <<entityVars, pagingVars, defaultVars, instVars, namedVars>>

\* AzureKeyPairService.create up to the raise.
KpCheck(c) ==
    /\ kcall[c].pc = "check"
    /\ kcall' = [kcall EXCEPT ![c] =
                    IF AzureKeyPairService_create_exists(keys, kcall[c].name)
                    THEN KeyDone(c, Out("raise", "Exception"), keys)
                    ELSE [@ EXCEPT !.pc = "insert"]]
    /\ UNCHANGED <<kprov, keys>>
    /\ UNCHANGED <<entityVars, pagingVars, defaultVars, instVars, namedVars>>

\* create_public_key(entity)
KpInsert(c) ==
    /\ kcall[c].pc = "insert"
    /\ keys' = keys \cup {Entity(keys, kcall[c].name)}
    /\ kcall' = [kcall EXCEPT ![c] = [@ EXCEPT !.pc = "reget", !.inserted = TRUE]]
    /\ UNCHANGED kprov
    /\ UNCHANGED <<entityVars, pagingVars, defaultVars, instVars, namedVars>>

\* key_pair = self.get(name); key_pair.material = ...
KpReget(c) ==
    /\ kcall[c].pc = "reget"
    /\ kcall' = [kcall EXCEPT ![c] =
                    IF AzureKeyPairService_get(keys, kcall[c].name).kind = "resource"
                    THEN KeyDone(c, Out("resource", ""), keys)
                    ELSE KeyDone(c, Out("raise", "AttributeError"), keys)]
    /\ UNCHANGED <<kprov, keys>>
    /\ UNCHANGED <<entityVars, pagingVars, defaultVars, instVars, namedVars>>

\* OpenStackKeyPairService.create: one nova call.
KpNova(c) ==
    /\ kcall[c].pc = "nova"
    /\ LET d == OpenStackKeyPairService_create(keys, kcall[c].name) IN
       /\ keys' = d.live
       /\ kcall' = [kcall EXCEPT ![c] = KeyDone(c, d.out, d.live)]
    /\ UNCHANGED kprov
    /\ UNCHANGED <<entityVars, pagingVars, defaultVars, instVars, namedVars>>

InitKeyPair ==
    /\ kprov \in KeyProviders
    /\ keys = {}
    /\ kcall = [c \in Callers |-> NoFrame]
    /\ EntityIdle
    /\ PagingIdle
    /\ DefaultIdle
    /\ InstanceIdle
    /\ NamedIdle

\* A create that begins when no other is in progress.
KpCall(c, name) == InFlight = 0 /\ KpBegin(c, name)

NextKeyPair ==
    \E c \in Callers :
        \/ \E name \in KeyNames : KpCall(c, name)
        \/ KpCheck(c)
        \/ KpInsert(c)
        \/ KpReget(c)
        \/ KpNova(c)

SpecKeyPair == InitKeyPair /\ [][NextKeyPair]_vars

----------------------------------------------------------------------------
(* subnets.get_or_create_default.  ARM keys networks and subnets by name,  *)
(* so a repeated create addresses the same resource; neutron gives every   *)
(* created network, subnet and router a fresh id and accepts equal names.  *)

CB_DEFAULT_NETWORK_NAME == "CloudBridgeNet"

CB_DEFAULT_SUBNET_NAME == "CloudBridgeSubnet"

DefaultProviders == {"azure", "openstack"}

Net(id, name) == [id |-> id, name |-> name]

Subnet(id, name, net) == [id |-> id, name |-> name, net |-> net]

Router(id, net, sub, gw) == [id |-> id, net |-> net, sub |-> sub, gw |-> gw]

\* The id ARM gives a network or a subnet is made of its names.
ArmNet(name) == Net(name, name)

ArmSubnet(net, name) == Subnet(<<net, name>>, name, net)

\* The id neutron gives the next resource of a collection.
Fresh(coll) == Cardinality(coll) + 1

Backend(n, s, r) == [nets |-> n, subnets |-> s, routers |-> r]

\* A backend another run left: a network of another name, the complete
\* default network, both or neither.
Backends(prov, other, default) ==
    IF prov = "azure"
    THEN Backend(
           (IF other THEN {ArmNet("other")} ELSE {})
             \cup (IF default THEN {ArmNet(CB_DEFAULT_NETWORK_NAME)} ELSE {}),
           (IF other THEN {ArmSubnet("other", "sub")} ELSE {})
             \cup (IF default
                   THEN {ArmSubnet(CB_DEFAULT_NETWORK_NAME, CB_DEFAULT_SUBNET_NAME)}
                   ELSE {}),
           {})
    ELSE LET k == IF other THEN 1 ELSE 0 IN
         Backend(
           (IF other THEN {Net(1, "other")} ELSE {})
             \cup (IF default THEN {Net(k + 1, CB_DEFAULT_NETWORK_NAME)} ELSE {}),
           (IF other THEN {Subnet(1, "sub", 1)} ELSE {})
             \cup (IF default
                   THEN {Subnet(k + 1, CB_DEFAULT_SUBNET_NAME, k + 1)} ELSE {}),
           IF default THEN {Router(1, k + 1, TRUE, TRUE)} ELSE {})

DefaultNets == {n \in nets : n.name = CB_DEFAULT_NETWORK_NAME}

DefaultSubnets == {x \in subnets : x.name = CB_DEFAULT_SUBNET_NAME}

\* azure_client.get_subnet(default network, default subnet): the subnet,
\* or nothing when ARM raises CloudError.
AzureSubnetService_default_subnet(sn) ==
    {x \in sn : x.net = CB_DEFAULT_NETWORK_NAME /\ x.name = CB_DEFAULT_SUBNET_NAME}

\* azure_client.get_network(default network)
AzureSubnetService_default_network(n) ==
    {x \in n : x.name = CB_DEFAULT_NETWORK_NAME}

\* BaseSubnetService.find: the subnets of that name.
BaseSubnetService_find(sn, name) == {x \in sn : x.name = name}

\* A lookup that sees no default subnet.
DefaultLookupFindsNothing(sn) == {}

\* sn = self.find(name=CB_DEFAULT_SUBNET_NAME)
OpenStackSubnetService_default_subnet(sn) ==
    BaseSubnetService_find(sn, CB_DEFAULT_SUBNET_NAME)

Returned(id) == [kind |-> "resource", id |-> id]

Raised(exc) == [kind |-> "raise", exc |-> exc]

DInFlight == Cardinality({c \in Callers : dcall[c].pc \notin {"idle", "done"}})

DFrame(pc) == [pc |-> pc, net |-> None, sn |-> None, rt |-> None, created |-> {}]

\* Caller c moves to pc.
DGoto(c, pc) == dcall' = [dcall EXCEPT ![c] = [@ EXCEPT !.pc = pc]]

\* The call of caller c is over.
DReturn(c, out, created) ==
    /\ dcall' = [dcall EXCEPT ![c] =
                    [pc |-> "done", created |-> created, out |-> out]]
    /\ drets' = Append(drets, out)

DBegin(c) ==
    /\ dcall[c].pc \in {"idle", "done"}
    /\ Len(drets) + DInFlight < MaxCalls
    /\ dcall' = [dcall EXCEPT ![c] =
                    DFrame(IF dprov = "azure" THEN "get_subnet" ELSE "find")]
    /\ UNCHANGED <<dprov, nets, subnets, routers, drets>>
    /\ UNCHANGED <<entityVars, pagingVars, keyVars, instVars, namedVars>>

\* AzureSubnetService.get_or_create_default, one backend call per step.
AzGetSubnet(c) ==
    /\ dcall[c].pc = "get_subnet"
    /\ LET found == AzureSubnetService_default_subnet(subnets) IN
       IF found # {}
       THEN \E x \in found : DReturn(c, Returned(x.id), dcall[c].created)
       ELSE DGoto(c, "get_network") /\ UNCHANGED drets
    /\ UNCHANGED <<dprov, nets, subnets, routers>>
    /\ UNCHANGED <<entityVars, pagingVars, keyVars, instVars, namedVars>>

AzGetNetwork(c) ==
    /\ dcall[c].pc = "get_network"
    /\ IF AzureSubnetService_default_network(nets) # {}
       THEN DGoto(c, "create_subnet")
       ELSE DGoto(c, "create_network")
    /\ UNCHANGED <<dprov, nets, subnets, routers, drets>>
    /\ UNCHANGED <<entityVars, pagingVars, keyVars, instVars, namedVars>>

\* network.create(): create_network(default name, params)
AzCreateNetwork(c) ==
    /\ dcall[c].pc = "create_network"
    /\ nets' = nets \cup {ArmNet(CB_DEFAULT_NETWORK_NAME)}
    /\ dcall' = [dcall EXCEPT ![c] =
                    [@ EXCEPT !.pc = "reget_network",
                              !.created = @ \cup {"network"}]]
    /\ UNCHANGED <<dprov, subnets, routers, drets>>
    /\ UNCHANGED <<entityVars, pagingVars, keyVars, instVars, namedVars>>

\* network.create(): get_network(default name)
AzRegetNetwork(c) ==
    /\ dcall[c].pc = "reget_network"
    /\ IF AzureSubnetService_default_network(nets) # {}
       THEN DGoto(c, "create_subnet") /\ UNCHANGED drets
       ELSE DReturn(c, Raised("CloudError"), dcall[c].created)
    /\ UNCHANGED <<dprov, nets, subnets, routers>>
    /\ UNCHANGED <<entityVars, pagingVars, keyVars, instVars, namedVars>>

\* create_subnet(default network, default subnet, prefix)
AzCreateSubnet(c) ==
    /\ dcall[c].pc = "create_subnet"
    /\ LET x == ArmSubnet(CB_DEFAULT_NETWORK_NAME, CB_DEFAULT_SUBNET_NAME)
           issued == dcall[c].created \cup {"subnet"} IN
       IF AzureSubnetService_default_network(nets) # {}
       THEN /\ subnets' = subnets \cup {x}
            /\ DReturn(c, Returned(x.id), issued)
       ELSE /\ UNCHANGED subnets
            /\ DReturn(c, Raised("CloudError"), issued)
    /\ UNCHANGED <<dprov, nets, routers>>
    /\ UNCHANGED <<entityVars, pagingVars, keyVars, instVars, namedVars>>

\* OpenStackSubnetService.get_or_create_default, one backend call per step.
\* neutron lists in no promised order: sn[0] is any of the subnets found.
OsFind(c) ==
    /\ dcall[c].pc = "find"
    /\ LET found == OpenStackSubnetService_default_subnet(subnets) IN
       IF found # {}
       THEN \E x \in found : DReturn(c, Returned(x.id), dcall[c].created)
       ELSE DGoto(c, "create_network_os") /\ UNCHANGED drets
    /\ UNCHANGED <<dprov, nets, subnets, routers>>
    /\ UNCHANGED <<entityVars, pagingVars, keyVars, instVars, namedVars>>

OsCreateNetwork(c) ==
    /\ dcall[c].pc = "create_network_os"
    /\ LET id == Fresh(nets) IN
       /\ nets' = nets \cup {Net(id, CB_DEFAULT_NETWORK_NAME)}
       /\ dcall' = [dcall EXCEPT ![c] =
                       [@ EXCEPT !.pc = "create_subnet_os", !.net = id,
                                 !.created = @ \cup {"network"}]]
    /\ UNCHANGED <<dprov, subnets, routers, drets>>
    /\ UNCHANGED <<entityVars, pagingVars, keyVars, instVars, namedVars>>

OsCreateSubnet(c) ==
    /\ dcall[c].pc = "create_subnet_os"
    /\ LET id == Fresh(subnets) IN
       /\ subnets' = subnets \cup {Subnet(id, CB_DEFAULT_SUBNET_NAME, dcall[c].net)}
       /\ dcall' = [dcall EXCEPT ![c] =
                       [@ EXCEPT !.pc = "create_router", !.sn = id,
                                 !.created = @ \cup {"subnet"}]]
    /\ UNCHANGED <<dprov, nets, routers, drets>>
    /\ UNCHANGED <<entityVars, pagingVars, keyVars, instVars, namedVars>>

OsCreateRouter(c) ==
    /\ dcall[c].pc = "create_router"
    /\ LET id == Fresh(routers) IN
       /\ routers' = routers \cup {Router(id, dcall[c].net, FALSE, FALSE)}
       /\ dcall' = [dcall EXCEPT ![c] =
                       [@ EXCEPT !.pc = "attach_subnet", !.rt = id]]
    /\ UNCHANGED <<dprov, nets, subnets, drets>>
    /\ UNCHANGED <<entityVars, pagingVars, keyVars, instVars, namedVars>>

OsAttachSubnet(c) ==
    /\ dcall[c].pc = "attach_subnet"
    /\ routers' = {IF r.id = dcall[c].rt THEN [r EXCEPT !.sub = TRUE] ELSE r :
                      r \in routers}
    /\ DGoto(c, "gateway")
    /\ UNCHANGED <<dprov, nets, subnets, drets>>
    /\ UNCHANGED <<entityVars, pagingVars, keyVars, instVars, namedVars>>

\* gateways.get_or_create_inet_gateway: the external network is looked up.
OsGateway(c) ==
    /\ dcall[c].pc = "gateway"
    /\ DGoto(c, "attach_gateway")
    /\ UNCHANGED <<dprov, nets, subnets, routers, drets>>
    /\ UNCHANGED <<entityVars, pagingVars, keyVars, instVars, namedVars>>

OsAttachGateway(c) ==
    /\ dcall[c].pc = "attach_gateway"
    /\ routers' = {IF r.id = dcall[c].rt THEN [r EXCEPT !.gw = TRUE] ELSE r :
                      r \in routers}
    /\ DReturn(c, Returned(dcall[c].sn), dcall[c].created)
    /\ UNCHANGED <<dprov, nets, subnets>>
    /\ UNCHANGED <<entityVars, pagingVars, keyVars, instVars, namedVars>>

DStep(c) ==
    \/ AzGetSubnet(c)
    \/ AzGetNetwork(c)
    \/ AzCreateNetwork(c)
    \/ AzRegetNetwork(c)
    \/ AzCreateSubnet(c)
    \/ OsFind(c)
    \/ OsCreateNetwork(c)
    \/ OsCreateSubnet(c)
    \/ OsCreateRouter(c)
    \/ OsAttachSubnet(c)
    \/ OsGateway(c)
    \/ OsAttachGateway(c)

InitBackend(default) ==
    /\ dprov \in DefaultProviders
    /\ \E other \in BOOLEAN, d \in default :
          LET b == Backends(dprov, other, d) IN
          /\ nets = b.nets
          /\ subnets = b.subnets
          /\ routers = b.routers
    /\ dcall = [c \in Callers |-> NoFrame]
    /\ drets = <<>>
    /\ EntityIdle
    /\ PagingIdle
    /\ KeyIdle
    /\ InstanceIdle
    /\ NamedIdle

\* SpecDefault: calls one after the other, on a backend with or without
\* the default network.
InitDefault == InitBackend(BOOLEAN)

DCall(c) == DInFlight = 0 /\ DBegin(c)

NextDefault == \E c \in Callers : DCall(c) \/ DStep(c)

SpecDefault == InitDefault /\ [][NextDefault]_vars

\* SpecRace: the callers' calls interleave at every backend call, on a
\* backend without the default network.
InitRace == InitBackend({FALSE})

NextRace == \E c \in Callers : DBegin(c) \/ DStep(c)

SpecRace == InitRace /\ [][NextRace]_vars

\* C9: two get_or_create_default calls in sequence return the same subnet
\* id, and after them the backend holds exactly one default network and
\* one default subnet, the one returned.
C9_DefaultSubnetIdempotent ==
    Len(drets) >= 2 =>
        /\ \A i \in 1..Len(drets) :
              /\ drets[i].kind = "resource"
              /\ drets[i] = drets[1]
              /\ \E x \in DefaultSubnets : x.id = drets[i].id
        /\ Cardinality(DefaultNets) = 1
        /\ Cardinality(DefaultSubnets) = 1

\* OpenStack: one caller created the default network, a later call of the
\* other caller returned.
C9_Witness ==
    /\ dprov = "openstack"
    /\ Len(drets) >= 2
    /\ \E c \in Callers :
          dcall[c].pc = "done" /\ dcall[c].created = {"network", "subnet"}

\* C10: of two callers running get_or_create_default concurrently on a
\* backend without default network and subnet, at most one issues the
\* create call for the default network and at most one the create call for
\* the default subnet.
C10_OneCallerCreates ==
    \A k \in {"network", "subnet"} :
        ~ \A c \in Callers :
              dcall[c].pc # "idle" /\ k \in dcall[c].created

----------------------------------------------------------------------------
(* Launch configurations.  A block device is a volume device (root or      *)
(* data, with a snapshot, a volume, an image or nothing as source) or an   *)
(* ephemeral device.                                                       *)

Device(is_volume, is_root, source) ==
    [is_volume |-> is_volume, is_root |-> is_root, source |-> source]

RootDevice == Device(TRUE, TRUE, "image")

EphemeralDevice == Device(FALSE, FALSE, "none")

\* Data devices: from a snapshot, from a volume, from an image, blank.
DataDevices == {Device(TRUE, FALSE, src) :
                   src \in {"snapshot", "volume", "image", "none"}}

VolumeDevices == DataDevices \cup {RootDevice}

Roots(devices) == {i \in 1..Len(devices) : devices[i].is_root}

LaunchConfig(devices, rejected) ==
    [on |-> TRUE, devices |-> devices, rejected |-> rejected]

\* An add that takes a second root device as it takes the first.
AddAcceptsEveryDevice(devices, dev) == LaunchConfig(Append(devices, dev), FALSE)

\* BaseLaunchConfig.add_volume_device: a device marked root is refused with
\* InvalidConfigurationException when the configuration has a root already.
BaseLaunchConfig_add_volume_device(devices, dev) ==
    IF dev.is_root /\ Roots(devices) # {}
    THEN LaunchConfig(devices, TRUE)
    ELSE LaunchConfig(Append(devices, dev), FALSE)

\* BaseLaunchConfig.add_ephemeral_device
BaseLaunchConfig_add_ephemeral_device(devices) ==
    LaunchConfig(Append(devices, EphemeralDevice), FALSE)

----------------------------------------------------------------------------
(* Instance create: the request and the provider calls *)

NoZone == "None"

KeyPairArgs == {"none", "empty", "str"}

SubnetArgs == {"none", "str"}

\* The zone of the subnet and the zone the caller asks for.
SubnetZones == {NoZone, "zone-s"}

CallerZones == {NoZone, "zone-c"}

Groups == {"g1", "g2"}

RulesOf(g) == IF g = "g1" THEN {"r1"} ELSE {"r2"}

\* security_groups: None, or a list of ids of existing groups.
GroupArgs ==
    {<<>>} \cup {<<g>> : g \in Groups}
           \cup {p \in Groups \X Groups : p[1] # p[2]}

InstanceProviders == {"azure", "openstack"}

Request(prov, key_pair, subnet, szone, zone, groups, config) ==
    [on |-> TRUE, prov |-> prov, key_pair |-> key_pair, subnet |-> subnet,
     szone |-> szone, zone |-> zone, groups |-> groups, config |-> config]

\* The arguments of OpenStackInstanceService.create.
OsRequest(subnet, zone, groups, gform, config) ==
    [on |-> TRUE, prov |-> "openstack", key_pair |-> "str", subnet |-> subnet,
     szone |-> NoZone, zone |-> zone, groups |-> groups, gform |-> gform,
     config |-> config]

\* The provider calls that change the backend.
Mutations == {"create_security_group", "add_rule", "create_disk",
              "update_disk_tags", "create_nic", "create_vm",
              "create_port", "create_server"}

NoCloud == [sgs |-> {}, disks |-> {}, nics |-> {}, vms |-> {}]

\* The locals of AzureInstanceService.create and of the methods it calls.
Run(pc) ==
    [pc |-> pc, zone_id |-> NoZone, sg_id |-> "None", k |-> 1,
     volumes_count |-> 0, disks |-> <<>>, root_size |-> FALSE, vol |-> 0]

Ended(out) == [pc |-> "done", out |-> out]

notInstance == <<entityVars, pagingVars, keyVars, defaultVars, namedVars>>

InitInstance ==
    /\ ilc = LaunchConfig(<<>>, FALSE)
    /\ ireq = [on |-> FALSE]
    /\ irun = NoFrame
    /\ icalls = <<>>
    /\ icloud = NoCloud
    /\ EntityIdle
    /\ PagingIdle
    /\ KeyIdle
    /\ DefaultIdle
    /\ NamedIdle

\* The caller builds the launch configuration before the create call.
AddVolumeDevice(dev) ==
    /\ irun.pc = "idle"
    /\ Len(ilc.devices) < MaxDevices
    /\ ilc' = BaseLaunchConfig_add_volume_device(ilc.devices, dev)
    /\ UNCHANGED <<ireq, irun, icalls, icloud>>
    /\ UNCHANGED notInstance

AddEphemeralDevice ==
    /\ irun.pc = "idle"
    /\ Len(ilc.devices) < MaxDevices
    /\ ilc' = BaseLaunchConfig_add_ephemeral_device(ilc.devices)
    /\ UNCHANGED <<ireq, irun, icalls, icloud>>
    /\ UNCHANGED notInstance

\* instances.create(...) is called.
IBegin(req) ==
    /\ irun.pc = "idle"
    /\ ireq' = req
    /\ irun' = Run(IF req.prov = "azure" THEN "key" ELSE "os_resolve")
    /\ UNCHANGED <<ilc, icalls, icloud>>
    /\ UNCHANGED notInstance

\* The run moves on with these locals, having issued these calls.
IGoto(run, calls) ==
    /\ irun' = run
    /\ icalls' = icalls \o calls

\* The block devices the call processes: launch_config may be None.
Devices == IF ireq.config THEN ilc.devices ELSE <<>>

\* Where create goes after _resolve_launch_options.
AfterOptions == IF Devices # <<>> THEN "device" ELSE "nic"

\* Where _process_block_device_mappings goes after device k.
AfterDevice(k) == IF k < Len(Devices) THEN "device" ELSE "nic"

\* A key check that lets every value pass.
KeyPairAlwaysGiven(key_pair) == TRUE

\* if key_pair: (None and '' are false)
KeyPairGiven(key_pair) == key_pair \notin {"none", "empty"}

\* Lines 451-457: the key pair is mandatory; an id is resolved.
ICheckKeyPair ==
    /\ irun.pc = "key"
    /\ IF KeyPairGiven(ireq.key_pair)
       THEN IGoto([irun EXCEPT !.pc = "image"],
                  IF ireq.key_pair = "str" THEN <<"get_public_key">> ELSE <<>>)
       ELSE IGoto(Ended(Raised("Exception")), <<>>)
    /\ UNCHANGED <<ilc, ireq, icloud>>
    /\ UNCHANGED notInstance

\* Lines 459-460: images.get(image)
IResolveImage ==
    /\ irun.pc = "image"
    /\ IGoto([irun EXCEPT !.pc = "subnet"], <<"get_image">>)
    /\ UNCHANGED <<ilc, ireq, icloud>>
    /\ UNCHANGED notInstance

\* Lines 465-469: the default subnet, or subnets.get(subnet)
IResolveSubnet ==
    /\ irun.pc = "subnet"
    /\ IGoto([irun EXCEPT !.pc = "options"],
             IF ireq.subnet = "none" THEN <<"get_or_create_default">>
             ELSE <<"get_subnet">>)
    /\ UNCHANGED <<ilc, ireq, icloud>>
    /\ UNCHANGED notInstance

\* if subnet: zone_id = subnet.zone.id  (the subnet is always there)
ResolveZone(szone, zone) == szone

\* A merge as soon as one group is requested.
MergeWhenAny(groups) == Len(groups) > 0

\* if len(security_groups) > 1:
MergeNeeded(groups) == Len(groups) > 1

\* _resolve_launch_options up to the merge: the zone, and the first group.
IResolveOptions ==
    /\ irun.pc = "options"
    /\ LET n == Len(ireq.groups) IN
       IGoto([irun EXCEPT
                 !.zone_id = ResolveZone(ireq.szone, ireq.zone),
                 !.sg_id = IF n > 0 THEN ireq.groups[1] ELSE "None",
                 !.pc = IF MergeNeeded(ireq.groups) THEN "sg_create"
                        ELSE AfterOptions],
             IF n > 0 THEN <<"get_security_group">> ELSE <<>>)
    /\ UNCHANGED <<ilc, ireq, icloud>>
    /\ UNCHANGED notInstance

MergedGroup == "merged"

\* The derived group gets the rules of group g (add_rule(src_group=g)).
AddRule(sgs, g) ==
    {IF x.id = MergedGroup THEN [x EXCEPT !.rules = @ \cup RulesOf(g)] ELSE x :
        x \in sgs}

\* Lines 600-603: more than one group: security_groups.create(name-sg, ...)
ISgCreate ==
    /\ irun.pc = "sg_create"
    /\ IGoto([irun EXCEPT !.pc = "sg_rule", !.k = 1], <<"create_security_group">>)
    /\ icloud' = [icloud EXCEPT !.sgs = @ \cup {[id |-> MergedGroup, rules |-> {}]}]
    /\ UNCHANGED <<ilc, ireq>>
    /\ UNCHANGED notInstance

\* Lines 605-608: new_sg.add_rule(src_group=sg) for each group, then the
\* derived group is the one to use.
ISgAddRule ==
    /\ irun.pc = "sg_rule"
    /\ LET k == irun.k IN
       /\ IGoto(IF k < Len(ireq.groups)
                THEN [irun EXCEPT !.k = k + 1]
                ELSE [irun EXCEPT !.k = 1, !.sg_id = MergedGroup,
                                  !.pc = AfterOptions],
                <<"add_rule">>)
       /\ icloud' = [icloud EXCEPT !.sgs = AddRule(@, ireq.groups[k])]
    /\ UNCHANGED <<ilc, ireq>>
    /\ UNCHANGED notInstance

\* The volume a device of an existing volume names.
GivenVolume == 0

\* A volume create that ignores the snapshot.
NewDiskAlwaysBlank(cloud, source, zone) ==
    [id |-> Cardinality(cloud.disks) + 1, source |-> "blank", zone |-> zone]

\* volumes.create / snapshot.create_volume: the new disk.
NewDisk(cloud, source, zone) ==
    [id |-> Cardinality(cloud.disks) + 1, source |-> source, zone |-> zone]

\* Lines 643-682, one device of the loop.  A snapshot or a blank device
\* has its volume created here and attached in the next step.
IProcessDevice ==
    /\ irun.pc = "device"
    /\ LET k == irun.k
           d == Devices[k]
           next == [irun EXCEPT !.k = k + 1, !.pc = AfterDevice(k)]
           disk == NewDisk(icloud,
                           IF d.source = "snapshot" THEN "snapshot" ELSE "blank",
                           IF d.source = "snapshot" THEN NoZone ELSE irun.zone_id) IN
       CASE ~d.is_volume ->
              IGoto(next, <<>>) /\ UNCHANGED icloud
         [] d.is_volume /\ d.is_root ->
              IGoto([next EXCEPT !.root_size = TRUE], <<>>) /\ UNCHANGED icloud
         [] d.is_volume /\ ~d.is_root /\ d.source = "image" ->
              /\ IGoto([next EXCEPT !.volumes_count = @ + 1], <<>>)
              /\ UNCHANGED icloud
         [] d.is_volume /\ ~d.is_root /\ d.source = "volume" ->
              /\ IGoto([irun EXCEPT !.pc = "attach", !.vol = GivenVolume], <<>>)
              /\ UNCHANGED icloud
         [] d.is_volume /\ ~d.is_root /\ d.source = "none" /\ irun.zone_id = NoZone ->
              /\ IGoto(Ended(Raised("InvalidConfigurationException")), <<>>)
              /\ UNCHANGED icloud
         [] OTHER ->
              /\ IGoto([irun EXCEPT !.pc = "attach", !.vol = disk.id],
                       <<"create_disk">>)
              /\ icloud' = [icloud EXCEPT !.disks = @ \cup {disk}]
    /\ UNCHANGED <<ilc, ireq>>
    /\ UNCHANGED notInstance

\* attach_volume (lines 624-641) and volumes_count += 1 (line 676)
IAttachVolume ==
    /\ irun.pc = "attach"
    /\ IGoto([irun EXCEPT
                 !.disks = Append(@, [lun |-> irun.volumes_count,
                                      name |-> irun.vol]),
                 !.volumes_count = @ + 1,
                 !.k = @ + 1,
                 !.pc = AfterDevice(irun.k)],
             <<"update_disk_tags">>)
    /\ UNCHANGED <<ilc, ireq, icloud>>
    /\ UNCHANGED notInstance

\* Lines 485-503: create_nic, with the security group if there is one.
ICreateNic ==
    /\ irun.pc = "nic"
    /\ IGoto([irun EXCEPT !.pc = "vm"], <<"create_nic">>)
    /\ icloud' = [icloud EXCEPT !.nics = @ \cup {[sg |-> irun.sg_id]}]
    /\ UNCHANGED <<ilc, ireq>>
    /\ UNCHANGED notInstance

\* Lines 505-560: create_vm at zone_id or the region, then get_vm.
ICreateVm ==
    /\ irun.pc = "vm"
    /\ IGoto(Ended(Returned("vm")), <<"create_vm", "get_vm">>)
    /\ icloud' = [icloud EXCEPT !.vms = @ \cup
                     {[location |-> IF irun.zone_id # NoZone THEN irun.zone_id
                                    ELSE "region",
                       os_disk_size |-> irun.root_size,
                       disks |-> irun.disks]}]
    /\ UNCHANGED <<ilc, ireq>>
    /\ UNCHANGED notInstance

\* OpenStackInstanceService._to_block_device_mapping: one entry per
\* device; a root device gets boot_index 0.
to_block_device_mapping(devices) ==
    [i \in 1..Len(devices) |->
        [destination_type |-> IF devices[i].is_volume THEN "volume" ELSE "local",
         boot |-> devices[i].is_volume /\ devices[i].is_root,
         source_type |-> IF devices[i].is_volume /\ devices[i].source # "none"
                         THEN devices[i].source ELSE "blank"]]

\* OpenStackInstanceService._has_root_device
has_root_device(devices) == Roots(devices) # {}

\* Lines 574-594: the instance type and the subnet are looked up.
OsResolve ==
    /\ irun.pc = "os_resolve"
    /\ IGoto([irun EXCEPT !.pc = IF ireq.subnet # "none" THEN "os_port"
                                 ELSE "os_server"],
             <<"find_instance_type">>
               \o (IF ireq.subnet = "str" THEN <<"get_subnet">> ELSE <<>>))
    /\ UNCHANGED <<ilc, ireq, icloud>>
    /\ UNCHANGED notInstance

\* How the caller gives the security groups: as objects, by id, by name.
GroupForms == {"object", "id", "name"}

SgName(g) == IF g = "g1" THEN "n1" ELSE "n2"

\* security_groups.find(name=sg): the groups of that name.
FindByName(sg) == {g \in Groups : SgName(g) = sg}

\* The security_groups argument as the caller passes it.
GroupsArg(groups, form) ==
    [i \in 1..Len(groups) |->
        IF form = "name" THEN SgName(groups[i]) ELSE groups[i]]

AppendAll(seq, set) == IF set = {} THEN seq ELSE Append(seq, CHOOSE g \in set : TRUE)

\* Lines 606-613, left to right: objects are taken as they are; strings
\* are looked up by name and the ones that find nothing are left out.
RECURSIVE SgIdList(_, _)
SgIdList(arg, form) ==
    IF arg = <<>> THEN <<>>
    ELSE IF form = "object" THEN arg
    ELSE AppendAll(<<>>, FindByName(Head(arg))) \o SgIdList(Tail(arg), form)

\* Lines 627-632: the names of the objects, or the strings as given.
SgNameList(arg, form) ==
    IF form = "object" THEN [i \in 1..Len(arg) |-> SgName(arg[i])] ELSE arg

\* Lines 603-626: the groups are looked up and a port is created.
OsCreatePort ==
    /\ irun.pc = "os_port"
    /\ LET arg == GroupsArg(ireq.groups, ireq.gform) IN
       /\ IGoto([irun EXCEPT !.pc = "os_server"],
                (IF ireq.gform = "object" THEN <<>>
                 ELSE [i \in 1..Len(arg) |-> "find_security_group"])
                  \o <<"create_port">>)
       /\ icloud' = [icloud EXCEPT !.nics = @ \cup
                        {[sg |-> SgIdList(arg, ireq.gform)]}]
    /\ UNCHANGED <<ilc, ireq>>
    /\ UNCHANGED notInstance

\* Lines 636-648: nova.servers.create
OsCreateServer ==
    /\ irun.pc = "os_server"
    /\ IGoto(Ended(Returned("vm")), <<"create_server">>)
    /\ icloud' = [icloud EXCEPT !.vms = @ \cup
                     {[location |-> ireq.zone,
                       security_groups |->
                           IF ireq.subnet # "none" THEN <<>>
                           ELSE SgNameList(GroupsArg(ireq.groups, ireq.gform),
                                           ireq.gform),
                       disks |-> to_block_device_mapping(Devices)]}]
    /\ UNCHANGED <<ilc, ireq>>
    /\ UNCHANGED notInstance

\* The create calls a caller makes.  The OpenStack call reads neither the
\* key pair nor the subnet's zone.
Requests ==
    {Request("azure", kp, sn, sz, z, g, c) :
        kp \in KeyPairArgs, sn \in SubnetArgs, sz \in SubnetZones,
        z \in CallerZones, g \in GroupArgs, c \in BOOLEAN}
    \cup
    {OsRequest(sn, z, g, f, c) :
        sn \in SubnetArgs, z \in CallerZones, g \in GroupArgs,
        f \in GroupForms, c \in BOOLEAN}

NextInstance ==
    \/ \E dev \in VolumeDevices : AddVolumeDevice(dev)
    \/ AddEphemeralDevice
    \/ \E req \in Requests : IBegin(req)
    \/ ICheckKeyPair
    \/ IResolveImage
    \/ IResolveSubnet
    \/ IResolveOptions
    \/ ISgCreate
    \/ ISgAddRule
    \/ IProcessDevice
    \/ IAttachVolume
    \/ ICreateNic
    \/ ICreateVm
    \/ OsResolve
    \/ OsCreatePort
    \/ OsCreateServer

SpecInstance == InitInstance /\ [][NextInstance]_vars

----------------------------------------------------------------------------
(* Claims on instance create *)

\* The positions of the provider call op in the calls issued so far.
CallsOf(op) == {i \in 1..Len(icalls) : icalls[i] = op}

AzureRun == ireq.on /\ ireq.prov = "azure"

\* The launch configuration of the call has a blank data device.
HasBlankDevice ==
    \E i \in 1..Len(Devices) :
        Devices[i] = Device(TRUE, FALSE, "none")

\* C11: in an Azure instance create the mutations come in the order
\* network interface, data disks, virtual machine: no disk is created
\* before create_nic has returned, and create_vm comes after every disk.
C11_NicThenDisksThenVm ==
    AzureRun =>
        /\ \A i \in CallsOf("create_disk") :
              \E j \in CallsOf("create_nic") : j < i
        /\ \A i \in CallsOf("create_vm") :
              \A j \in CallsOf("create_disk") : j < i

\* C12: an Azure instance create whose launch configuration has a blank
\* data device, with no zone resolvable, raises
\* InvalidConfigurationException and has issued no provider mutation,
\* whatever other devices and security groups are requested.
C12_BlankWithoutZoneFailsFast ==
    (/\ AzureRun /\ irun.pc = "done"
     /\ KeyPairGiven(ireq.key_pair)
     /\ HasBlankDevice
     /\ ireq.szone = NoZone /\ ireq.zone = NoZone) =>
        /\ irun.out = Raised("InvalidConfigurationException")
        /\ \A i \in 1..Len(icalls) : icalls[i] \notin Mutations

C14_SecurityGroupMerge ==
    (AzureRun /\ icloud.nics # {}) =>
        LET n == Len(ireq.groups) IN
        /\ n > 1 =>
              /\ icloud.sgs =
                    {[id |-> MergedGroup,
                      rules |-> UNION {RulesOf(ireq.groups[i]) : i \in 1..n}]}
              /\ Cardinality(CallsOf("create_security_group")) = 1
              /\ Cardinality(CallsOf("add_rule")) = n
              /\ icloud.nics = {[sg |-> MergedGroup]}
        /\ n = 1 =>
              /\ icloud.sgs = {}
              /\ CallsOf("create_security_group") = {}
              /\ icloud.nics = {[sg |-> ireq.groups[1]]}
        /\ n = 0 =>
              /\ icloud.sgs = {}
              /\ CallsOf("create_security_group") = {}
              /\ icloud.nics = {[sg |-> "None"]}

\* An Azure create with two groups has created its network interface.
C14_Witness ==
    /\ AzureRun /\ Len(ireq.groups) = 2
    /\ icloud.nics = {[sg |-> MergedGroup]}
    /\ irun.pc = "done"

\* The zone C15 expects: the subnet's if it has one, else the caller's.
ExpectedZone == IF ireq.szone # NoZone THEN ireq.szone ELSE ireq.zone

\* C15: in Azure instance create the zone used for the blank disks and the
\* VM location is the subnet's zone when the subnet has one, even if the
\* caller passed another; when the subnet has none, the caller's zone is
\* kept (a blank device is then not refused for lack of a zone).
C15_SubnetZonePrecedence ==
    AzureRun =>
        /\ \A vm \in icloud.vms :
              vm.location = IF ExpectedZone # NoZone THEN ExpectedZone
                            ELSE "region"
        /\ \A x \in icloud.disks : x.source = "blank" => x.zone = ExpectedZone
        /\ (irun.pc = "done" /\ ExpectedZone # NoZone) =>
              irun.out # Raised("InvalidConfigurationException")

\* C16: Azure instance create without a key pair (None or empty) raises
\* before any provider call: nothing is looked up and nothing provisioned.
C16_KeyPairRequired ==
    (AzureRun /\ ireq.key_pair \in {"none", "empty"}) =>
        /\ icalls = <<>>
        /\ icloud = NoCloud
        /\ irun.pc = "done" => irun.out = Raised("Exception")

\* A create without key pair, with two groups and block devices, is over.
C16_Witness ==
    /\ AzureRun /\ ireq.key_pair = "none"
    /\ Len(ireq.groups) = 2 /\ ireq.config /\ HasBlankDevice
    /\ irun.pc = "done"

----------------------------------------------------------------------------
(* SpecLaunchFault: instance create on a backend whose calls may fail *)

\* Device k of the call makes create ask the backend for a new disk.
CreatesDisk(k) ==
    LET d == Devices[k] IN
    /\ d.is_volume /\ ~d.is_root
    /\ d.source = "snapshot" \/ (d.source = "none" /\ irun.zone_id # NoZone)

\* The provider mutation the Azure call issues next, "" if none.
NextMutation ==
    CASE irun.pc = "sg_create" -> "create_security_group"
      [] irun.pc = "sg_rule" -> "add_rule"
      [] irun.pc = "device" /\ CreatesDisk(irun.k) -> "create_disk"
      [] irun.pc = "attach" -> "update_disk_tags"
      [] irun.pc = "nic" -> "create_nic"
      [] irun.pc = "vm" -> "create_vm"
      [] OTHER -> ""

Failure(cloud, calls) == [cloud |-> cloud, calls |-> calls]

\* A create that deletes the network interface it made when a later call
\* fails.
FailureDeletesNic(cloud, op) ==
    IF cloud.nics # {}
    THEN Failure([cloud EXCEPT !.nics = {}], <<op, "delete_nic">>)
    ELSE Failure(cloud, <<op>>)

\* create has no handler around its provider calls (lines 473-560): the
\* error of the call op leaves create, and the backend stays as it is.
FailurePropagates(cloud, op) == Failure(cloud, <<op>>)

\* The next provider mutation fails with CloudError.
IFail ==
    /\ irun.pc # "idle" /\ irun.pc # "done"
    /\ NextMutation # ""
    /\ LET f == FailurePropagates(icloud, NextMutation) IN
       /\ IGoto(Ended(Raised("CloudError")), f.calls)
       /\ icloud' = f.cloud
    /\ UNCHANGED <<ilc, ireq>>
    /\ UNCHANGED notInstance

NextLaunchFault == NextInstance \/ IFail

SpecLaunchFault == InitInstance /\ [][NextLaunchFault]_vars

\* The calls that returned: all but the last one of a run a CloudError ended.
Returned_calls ==
    IF irun.pc = "done" /\ irun.out = Raised("CloudError")
    THEN SubSeq(icalls, 1, Len(icalls) - 1) ELSE icalls

DeleteCalls == {"delete_security_group", "delete_disk", "delete_nic", "delete_vm"}

\* C17: when a step of Azure instance create fails after earlier steps
\* provisioned sub-resources, the failure reaches the caller, no delete
\* call is issued, and every sub-resource whose create call returned is
\* still in the backend.
C17_NoRollback ==
    (AzureRun /\ irun.pc = "done" /\ irun.out.kind = "raise") =>
        LET Made(op) == Cardinality({i \in 1..Len(Returned_calls) :
                                        Returned_calls[i] = op}) IN
        /\ \A i \in 1..Len(icalls) : icalls[i] \notin DeleteCalls
        /\ Cardinality(icloud.sgs) = Made("create_security_group")
        /\ Cardinality(icloud.disks) = Made("create_disk")
        /\ Cardinality(icloud.nics) = Made("create_nic")
        /\ icloud.vms = {}

\* create_vm failed after a merged group, a disk and the network interface
\* were provisioned.
C17_Witness ==
    /\ AzureRun /\ irun.pc = "done" /\ irun.out = Raised("CloudError")
    /\ icalls[Len(icalls)] = "create_vm"
    /\ icloud.sgs # {} /\ icloud.disks # {} /\ icloud.nics # {}

----------------------------------------------------------------------------
(* Create and get by name: buckets, and the Azure services whose create   *)
(* takes a name.                                                           *)

MinBucketName == 3

MaxBucketName == 63

Repeat(ch, n) == [i \in 1..n |-> ch]

\* Names a caller passes as bucket name or bucket id.
BucketNames ==
    {<<"a", "b">>, <<"a", "b", "c">>, <<"a", "b", "c", "d">>,
     <<"a", "b", "_", "c">>, <<"A", "b", "c">>,
     <<"1", ".", "1", ".", "1", ".", "1">>, <<"1", ".", "1", ".", "1">>,
     Repeat("a", MaxBucketName), Repeat("a", MaxBucketName + 1)}

Digits == {"1"}

\* Four groups of digits separated by dots.
IsIpAddress(s) ==
    LET dots == {i \in 1..Len(s) : s[i] = "."} IN
    /\ Cardinality(dots) = 3
    /\ \A i \in 1..Len(s) : i \notin dots => s[i] \in Digits
    /\ \A i \in dots : i > 1 /\ i < Len(s) /\ (i + 1) \notin dots

\* BaseBucket.is_valid_resource_name: 3 to 63 characters, no underscore,
\* not an IP address.
IsValidBucketName(s) ==
    /\ Len(s) >= MinBucketName
    /\ Len(s) <= MaxBucketName
    /\ \A i \in 1..Len(s) : s[i] # "_"
    /\ ~IsIpAddress(s)

\* str.lower()
Lower(s) == [i \in 1..Len(s) |-> IF s[i] = "A" THEN "a" ELSE s[i]]

\* s.startswith(p)
StartsWith(s, p) == Len(p) <= Len(s) /\ SubSeq(s, 1, Len(p)) = p

Named(id, name) == [id |-> id, name |-> name]

\* A container is keyed by its name.
Container(name) == Named(name, name)

\* AzureObjectStoreService.get: get_container raises when there is none.
AzureObjectStoreService_get(store, bucket_id) ==
    IF Container(bucket_id) \in store THEN Out("resource", "") ELSE Out("none", "")

\* OpenStackObjectStoreService.get: the containers whose name starts with
\* bucket_id are listed; if there are any, a bucket is returned that wraps
\* the one named bucket_id, or wraps None.
OpenStackObjectStoreService_get(store, bucket_id) ==
    LET container_list == {x \in store : StartsWith(x.name, bucket_id)} IN
    IF container_list # {}
    THEN IF Container(bucket_id) \in container_list
         THEN Out("resource", "") ELSE Out("bucket_of_none", "")
    ELSE Out("none", "")

\* AzureObjectStoreService.create: create_container(name.lower()), no
\* check of the name.  accepted tells whether the storage service takes
\* the name; it raises AzureHttpError otherwise.
AzureObjectStoreService_create(store, name, accepted) ==
    IF accepted
    THEN Done(Out("resource", ""), store \cup {Container(Lower(name))})
    ELSE Done(Out("raise", "AzureHttpError"), store)

\* OpenStackObjectStoreService.create: the name is checked, put_container,
\* then get.
OpenStackObjectStoreService_create(store, name) ==
    IF ~IsValidBucketName(name)
    THEN Done(Out("raise", "InvalidNameException"), store)
    ELSE LET after == store \cup {Container(name)} IN
         Done(OpenStackObjectStoreService_get(after, name), after)

BucketServices == {"az_bucket", "os_bucket"}

\* The Azure services of C20: volume, snapshot, network, security group,
\* instance.
NameServices == {"az_vol", "az_snap", "az_net", "az_sg", "az_instance"}

ResourceNames == {"n1", "n2"}

\* "{0}-{1}".format(name, uuid.uuid4().hex[:6])
NameWithUuid(name, uuid) == <<name, uuid>>

\* The name under which create asks ARM for the resource: the volume,
\* snapshot, network and instance services add a uuid, the security-group
\* service passes the caller's name.
ArmName(s, name, uuid) ==
    IF s = "az_sg" THEN <<name>> ELSE NameWithUuid(name, uuid)

\* ARM creates or replaces the resource of that name; its id is made of
\* the name.
ArmCreate(store, armname, name) ==
    {x \in store : x.id # armname} \cup {Named(armname, name)}

\* uuid4: a value no earlier call drew.
FreshUuid(store) == Cardinality(store) + 1

NamedCreate(s, store, name, accepted) ==
    CASE s = "az_bucket" -> AzureObjectStoreService_create(store, name, accepted)
      [] s = "os_bucket" -> OpenStackObjectStoreService_create(store, name)
      [] OTHER ->
           Done(Out("resource", ""),
                ArmCreate(store, ArmName(s, name, FreshUuid(store)), name))

NamedGet(s, store, id) ==
    CASE s = "az_bucket" -> AzureObjectStoreService_get(store, id)
      [] s = "os_bucket" -> OpenStackObjectStoreService_get(store, id)

WithName(store, name) == {x \in store : x.name = name}

NamedCall(op, valid, existed, out, after, changed) ==
    [op |-> op, valid |-> valid, existed |-> existed, out |-> out,
     count |-> after, changed |-> changed]

notNamed == <<entityVars, pagingVars, keyVars, defaultVars, instVars>>

InitNamed ==
    /\ nsvc \in BucketServices \cup NameServices
    /\ nstore = {}
    /\ nret = [op |-> "none"]
    /\ EntityIdle
    /\ PagingIdle
    /\ KeyIdle
    /\ DefaultIdle
    /\ InstanceIdle

NamesFor(s) == IF s \in BucketServices THEN BucketNames ELSE ResourceNames

\* service.create(name, ...).  The storage service may take or refuse a
\* name the library has not checked; every other request is accepted.
NCreate(name, accepted) ==
    /\ Cardinality(nstore) < MaxNamed
    /\ accepted \/ (nsvc = "az_bucket" /\ ~IsValidBucketName(name))
    /\ LET d == NamedCreate(nsvc, nstore, name, accepted) IN
       /\ nstore' = d.live
       /\ nret' = NamedCall("create",
                            nsvc \in BucketServices => IsValidBucketName(name),
                            WithName(nstore, name) # {},
                            d.out,
                            Cardinality(WithName(d.live, name)),
                            d.live # nstore)
    /\ UNCHANGED nsvc
    /\ UNCHANGED notNamed

\* object_store.get(bucket_id)
NGet(id) ==
    /\ nsvc \in BucketServices
    /\ nret' = NamedCall("get", TRUE, Container(id) \in nstore,
                         NamedGet(nsvc, nstore, id),
                         Cardinality(WithName(nstore, id)), FALSE)
    /\ UNCHANGED <<nsvc, nstore>>
    /\ UNCHANGED notNamed

\* The disks a snapshot can be taken of: id, resource_id and size.
Disk(id, size) == [id |-> id, resource_id |-> id, size |-> size]

AzureDisks == {Disk("Volume1", 1)}

\* The volume argument of snapshots.create: the id of a disk, an id that
\* names no disk, or a volume object.
VolumeArgs ==
    {[str |-> TRUE, id |-> "Volume1"], [str |-> TRUE, id |-> "Volume9"],
     [str |-> FALSE, id |-> "Volume1"]}

\* volumes.get(volume) gives None for an id that names no disk.
VolumeResolves(volume) == \E d \in AzureDisks : d.id = volume.id

\* volumes.get(volume) if isinstance(volume, str) else volume
ResolveVolume(volume) == CHOOSE d \in AzureDisks : d.id = volume.id

\* No snapshot: None.
NoSnapshot == [id |-> <<>>, name |-> "None", size |-> None, volume_id |-> "None"]

\* AzureSnapshot: id is the resource name, name the Name tag, size
\* disk_size_gb, volume_id the source_uri of creation_data.
AzureSnapshot(entry, params) ==
    [id |-> entry.id, name |-> entry.name, size |-> params.disk_size_gb,
     volume_id |-> params.source_uri]

\* A create that leaves out the tag Name.
SnapshotWithoutNameTag(store, name, volume, uuid) ==
    IF ~VolumeResolves(volume)
    THEN [out |-> Out("raise", "AttributeError"), live |-> store,
          snap |-> NoSnapshot]
    ELSE LET vol == ResolveVolume(volume)
             snapshot_name == NameWithUuid(name, uuid)
             params == [disk_size_gb |-> vol.size, source_uri |-> vol.resource_id]
             after == ArmCreate(store, snapshot_name, "")
             azure_snap == CHOOSE x \in after : x.id = snapshot_name
         IN  [out |-> Out("resource", ""), live |-> after,
              snap |-> AzureSnapshot(azure_snap, params)]

\* AzureSnapshotService.create: the snapshot is created under the name with
\* a uuid and with the tag Name, then read back.  ARM gives back the
\* parameters the snapshot was created with.
AzureSnapshotService_create(store, name, volume, uuid) ==
    IF ~VolumeResolves(volume)
    THEN [out |-> Out("raise", "AttributeError"), live |-> store,
          snap |-> NoSnapshot]
    ELSE LET vol == ResolveVolume(volume)
             snapshot_name == NameWithUuid(name, uuid)
             params == [disk_size_gb |-> vol.size, source_uri |-> vol.resource_id]
             after == ArmCreate(store, snapshot_name, name)
             azure_snap == CHOOSE x \in after : x.id = snapshot_name
         IN  [out |-> Out("resource", ""), live |-> after,
              snap |-> AzureSnapshot(azure_snap, params)]

\* What is recorded of a snapshot call: the name asked for, whether the
\* volume argument named a volume, the outcome, the snapshot given back and
\* the one the create before it gave back.
SnapshotCall(op, name, resolved, out, snap, created) ==
    [op |-> op, name |-> name, resolved |-> resolved, out |-> out,
     snap |-> snap, created |-> created]

\* snapshots.create(name, volume)
NSnapshotCreate(name, volume) ==
    /\ nsvc = "az_snap"
    /\ Cardinality(nstore) < MaxNamed
    /\ LET d == AzureSnapshotService_create(nstore, name, volume,
                                            FreshUuid(nstore)) IN
       /\ nstore' = d.live
       /\ nret' = SnapshotCall("snapshot_create", name,
                               VolumeResolves(volume), d.out, d.snap,
                               NoSnapshot)
    /\ UNCHANGED nsvc
    /\ UNCHANGED notNamed

\* snapshots.get(snapshot.id), right after the create that returned
\* snapshot.
NSnapshotGet ==
    /\ nsvc = "az_snap"
    /\ nret.op = "snapshot_create"
    /\ nret.out.kind = "resource"
    /\ LET ids == {x.id : x \in nstore}
           out == AzureSnapshotService_get(ids, nret.snap.id, FALSE)
           got == IF out.kind = "resource"
                  THEN LET e == CHOOSE x \in nstore : x.id = nret.snap.id IN
                       [nret.snap EXCEPT !.id = e.id, !.name = e.name]
                  ELSE NoSnapshot
       IN  nret' = SnapshotCall("snapshot_get", nret.name, TRUE, out, got,
                                nret.snap)
    /\ UNCHANGED <<nsvc, nstore>>
    /\ UNCHANGED notNamed

NextNamed ==
    \/ \E name \in NamesFor(nsvc), accepted \in BOOLEAN : NCreate(name, accepted)
    \/ \E id \in BucketNames : NGet(id)
    \/ \E name \in ResourceNames, volume \in VolumeArgs :
          NSnapshotCreate(name, volume)
    \/ NSnapshotGet

SpecNamed == InitNamed /\ [][NextNamed]_vars

\* C18: object_store.create(name) with an invalid bucket name (an
\* underscore, fewer than 3 or more than 63 characters, an IP address)
\* raises InvalidNameException and creates no container, on every provider.
C18_InvalidBucketNameRejected ==
    (nret.op = "create" /\ nsvc \in BucketServices /\ ~nret.valid) =>
        /\ nret.out = Out("raise", "InvalidNameException")
        /\ ~nret.changed

\* C19: object_store.get(bucket_id) returns a bucket exactly when a
\* container named bucket_id exists, and None otherwise, also when other
\* containers have names that start with bucket_id.
C19_GetBucketExactName ==
    (nret.op = "get" /\ nsvc \in BucketServices) =>
        /\ nret.existed => nret.out.kind = "resource"
        /\ ~nret.existed => nret.out.kind = "none"

\* C20: for the entity kinds other than key pairs, a second successful
\* create with a name in use leaves two distinct resources of that name.
C20_CreateNotKeyedByName ==
    (/\ nret.op = "create" /\ nsvc \in NameServices
     /\ nret.existed /\ nret.out.kind = "resource") =>
        nret.count >= 2

\* C22: on Azure, snapshots.create(name, volume) of a volume gives back a
\* snapshot named name, with a size and a volume_id, and get of its id right
\* afterwards gives back that same snapshot.
C22_SnapshotCreateThenGet ==
    /\ (nret.op = "snapshot_create" /\ nret.resolved) =>
           /\ nret.out.kind = "resource"
           /\ nret.snap.name = nret.name
           /\ nret.snap.size # None
           /\ nret.snap.volume_id # "None"
    /\ nret.op = "snapshot_get" =>
           /\ nret.out.kind = "resource"
           /\ nret.snap = nret.created

\* A get right after the second create of a snapshot of the same name.
C22_Witness ==
    /\ nret.op = "snapshot_get"
    /\ nret.snap # NoSnapshot
    /\ nret.snap.name = nret.name
    /\ Cardinality(WithName(nstore, nret.name)) = 2

----------------------------------------------------------------------------
(* SpecSubnetId: the composite identifier of an Azure subnet *)

\* Network and subnet names that do not contain the delimiter.
IdParts == {x \in Seqs(Chars, MaxPartLen) : FindFrom(x, Delim, 1) = 0}

\* s.endswith(p)
EndsWith(s, p) ==
    Len(p) <= Len(s) /\ SubSeq(s, Len(s) - Len(p) + 1, Len(s)) = p

\* What is recorded of a call with the id of the subnet s of network n:
\* whether the subnet was live, whether n ends with the first two
\* characters of the delimiter, the outcome and whether the subnet is live
\* afterwards.
SubnetIdCall(op, key, was, out, is) ==
    [op |-> op, live |-> was, overlap |-> EndsWith(key[1], SubSeq(Delim, 1, 2)),
     out |-> out, after |-> is]

\* The backend holds one subnet, s of network n.
InitSubnetId ==
    /\ nsvc = "az_subnet"
    /\ nstore \in {{k} : k \in IdParts \X IdParts}
    /\ nret = [op |-> "none"]
    /\ EntityIdle
    /\ PagingIdle
    /\ KeyIdle
    /\ DefaultIdle
    /\ InstanceIdle

\* subnets.get(n + '|$|' + s)
NSubnetGet(key) ==
    /\ nsvc = "az_subnet"
    /\ nret' = SubnetIdCall("subnet_get", key, key \in nstore,
                  AzureSubnetService_get(nstore, ComposeId(key[1], key[2]), FALSE),
                  key \in nstore)
    /\ UNCHANGED <<nsvc, nstore>>
    /\ UNCHANGED notNamed

\* subnets.delete(n + '|$|' + s)
NSubnetDelete(key) ==
    /\ nsvc = "az_subnet"
    /\ LET d == AzureSubnetService_delete(nstore, ComposeId(key[1], key[2]),
                                          FALSE) IN
       /\ nstore' = d.live
       /\ nret' = SubnetIdCall("subnet_delete", key, key \in nstore, d.out,
                               key \in d.live)
    /\ UNCHANGED nsvc
    /\ UNCHANGED notNamed

\* subnets.create(network n, ..., name s)
NSubnetCreate(key) ==
    /\ nsvc = "az_subnet"
    /\ nstore = {}
    /\ nstore' = AzureSubnetService_create(nstore, key)
    /\ nret' = SubnetIdCall("subnet_create", key, FALSE, Out("resource", ""),
                            TRUE)
    /\ UNCHANGED nsvc
    /\ UNCHANGED notNamed

NextSubnetId ==
    \/ \E key \in nstore : NSubnetGet(key)
    \/ \E key \in nstore : NSubnetDelete(key)
    \/ \E key \in IdParts \X IdParts : NSubnetCreate(key)

SpecSubnetId == InitSubnetId /\ [][NextSubnetId]_vars

\* The call reached the subnet s of network n: get gave the resource back,
\* delete returned True and removed it.
ReachedSubnet ==
    /\ nret.op = "subnet_get" => nret.out.kind = "resource"
    /\ nret.op = "subnet_delete" => nret.out.kind = "true" /\ ~nret.after

\* C23: for every network name n and subnet name s that do not contain
\* '|$|', get and delete called with n + '|$|' + s address the backend with
\* the pair (n, s).
C23_CompositeIdRoundTrip ==
    (nret.op \in {"subnet_get", "subnet_delete"} /\ nret.live) => ReachedSubnet

\* C23, amended: the same, for the names n that, besides, do not end with
\* '|$'.
C23_RoundTripWithoutOverlap ==
    (/\ nret.op \in {"subnet_get", "subnet_delete"} /\ nret.live
     /\ ~nret.overlap) => ReachedSubnet

\* A delete with the composite id of a live subnet whose names hold
\* characters of the delimiter.
C23_Witness ==
    /\ nret.op = "subnet_delete" /\ nret.live /\ ~nret.overlap
    /\ nret.out.kind = "true"
    /\ nstore = {}

----------------------------------------------------------------------------
(* Claims on the block devices of an Azure instance *)

\* The devices that end up as data disks: volume devices that are not
\* root and whose source is not an image.
Attached(d) == d.is_volume /\ ~d.is_root /\ d.source # "image"

AttachedDevices == SelectSeq(Devices, Attached)

\* The positions of the devices for which a volume is created.
Created(devices, source) ==
    {i \in 1..Len(devices) : Attached(devices[i]) /\ devices[i].source = source}

\* The data disk named name is the volume the device d asks for.
DiskOf(d, name) ==
    CASE d.source = "volume" -> name = GivenVolume
      [] d.source = "snapshot" ->
           \E x \in icloud.disks : x.id = name /\ x.source = "snapshot"
      [] OTHER ->
           \E x \in icloud.disks : x.id = name /\ x.source = "blank"

\* C24: Azure block-device resolution, in launch-configuration order: a
\* root entry only sets the boot-disk size; a snapshot entry creates one
\* volume from the snapshot and attaches it; a volume entry is attached
\* with no creation; an image entry and an ephemeral entry give nothing; a
\* blank entry creates one blank volume and attaches it.  The data disks
\* are the attached volumes, in entry order.
C24_BlockDeviceResolution ==
    (ireq.on /\ ireq.prov = "azure") =>
        \A vm \in icloud.vms :
            /\ vm.os_disk_size = (Roots(Devices) # {})
            /\ Len(vm.disks) = Len(AttachedDevices)
            /\ \A j \in 1..Len(vm.disks) :
                   DiskOf(AttachedDevices[j], vm.disks[j].name)
            /\ \A j, k \in 1..Len(vm.disks) :
                   (j # k /\ AttachedDevices[j].source # "volume") =>
                       vm.disks[j].name # vm.disks[k].name
            /\ Cardinality({x \in icloud.disks : x.source = "snapshot"})
                   = Cardinality(Created(Devices, "snapshot"))
            /\ Cardinality({x \in icloud.disks : x.source = "blank"})
                   = Cardinality(Created(Devices, "none"))
            /\ Cardinality(CallsOf("create_disk")) = Cardinality(icloud.disks)
            /\ Cardinality(CallsOf("update_disk_tags")) = Len(vm.disks)

\* An instance launched with a snapshot device, then a blank device.
C24_Witness ==
    /\ ireq.on /\ ireq.prov = "azure"
    /\ icloud.vms # {}
    /\ Len(Devices) = 2
    /\ Devices[1].source = "snapshot" /\ Attached(Devices[1])
    /\ Devices[2].source = "none" /\ Attached(Devices[2])
    /\ Cardinality(icloud.disks) = 2

\* C28: in the data-disk list of an Azure instance the LUN numbers are
\* pairwise distinct and strictly increasing in launch-configuration
\* order, and start at 0, whatever the mix of devices.
C28_LunsIncreaseFromZero ==
    (ireq.on /\ ireq.prov = "azure") =>
        \A vm \in icloud.vms :
            /\ \A j, k \in 1..Len(vm.disks) :
                   j < k => vm.disks[j].lun < vm.disks[k].lun
            /\ Len(vm.disks) > 0 => vm.disks[1].lun = 0

----------------------------------------------------------------------------
(* Claims on the security groups of an OpenStack instance *)

\* C25: OpenStack instance create makes no merge group and attaches every
\* requested group, given as an object or as an identifier: to the port
\* when a subnet is given, to the server otherwise; none is dropped.
C25_SecurityGroupsPassThrough ==
    (ireq.on /\ ireq.prov = "openstack" /\ ireq.gform \in {"object", "id"}) =>
        /\ CallsOf("create_security_group") = {}
        /\ \A nic \in icloud.nics : nic.sg = ireq.groups
        /\ \A vm \in icloud.vms :
               ireq.subnet = "none" =>
                   /\ Len(vm.security_groups) = Len(ireq.groups)
                   /\ \A i \in 1..Len(ireq.groups) :
                          vm.security_groups[i]
                              \in {ireq.groups[i], SgName(ireq.groups[i])}

----------------------------------------------------------------------------
(* SpecUserData: the user data of an Azure instance *)

Shebang == <<"#", "!">>

CloudConfig == <<"#", "c", "l", "o", "u", "d", "-", "c", "o", "n", "f", "i", "g">>

\* user_data: None, or a string.
UserData(given, text) == [given |-> given, text |-> text]

\* The strings a caller passes: a start of one of the two headers, then a
\* few characters.
UserDataTexts ==
    {Take(h, k) \o t :
        h \in {Shebang, CloudConfig}, k \in 0..Len(CloudConfig),
        t \in Seqs({"#", "!", "x"}, MaxTail)}

UserDataArgs ==
    {UserData(FALSE, <<>>)} \cup {UserData(TRUE, t) : t \in UserDataTexts}

\* if user_data: (None and '' are false)
Truthy(user_data) == user_data.given /\ user_data.text # <<>>

HasHeader(text) == StartsWith(text, Shebang) \/ StartsWith(text, CloudConfig)

\* A prefixing that does not look for a header.
AlwaysPrefixed(user_data) ==
    IF Truthy(user_data)
    THEN UserData(TRUE, CloudConfig \o <<"\n">> \o user_data.text)
    ELSE user_data

\* Lines 505-507: ud
UserDataWithHeader(user_data) ==
    IF Truthy(user_data) /\ ~HasHeader(user_data.text)
    THEN UserData(TRUE, CloudConfig \o <<"\n">> \o user_data.text)
    ELSE user_data

\* base64.b64encode: an encoding that keeps distinct texts distinct.
B64(text) == [b64 |-> text]

\* Lines 554-556: the custom_data field of os_profile, if there is one.
CustomData(user_data) ==
    IF Truthy(user_data)
    THEN [sent |-> TRUE, data |-> B64(UserDataWithHeader(user_data).text)]
    ELSE [sent |-> FALSE, data |-> B64(<<>>)]

InitUserData ==
    /\ nsvc = "az_instance"
    /\ nstore = {}
    /\ nret = [op |-> "none"]
    /\ EntityIdle
    /\ PagingIdle
    /\ KeyIdle
    /\ DefaultIdle
    /\ InstanceIdle

\* instances.create(..., user_data=user_data): the parameters of create_vm.
NUserData(user_data) ==
    /\ nsvc = "az_instance"
    /\ nret' = [op |-> "create_vm", user_data |-> user_data,
                ud |-> UserDataWithHeader(user_data),
                again |-> UserDataWithHeader(UserDataWithHeader(user_data)),
                custom_data |-> CustomData(user_data)]
    /\ UNCHANGED <<nsvc, nstore>>
    /\ UNCHANGED notNamed

NextUserData == \E user_data \in UserDataArgs : NUserData(user_data)

SpecUserData == InitUserData /\ [][NextUserData]_vars

\* C26: in Azure instance create, user data that starts with neither '#!'
\* nor '#cloud-config' is sent with '#cloud-config\n' before it; user data
\* that starts with one of them is sent as it is, so that prefixing twice
\* gives what prefixing once gives; with no user data no custom_data is
\* sent.
C26_UserDataHeader ==
    nret.op = "create_vm" =>
        LET u == nret.user_data IN
        /\ (Truthy(u) /\ ~HasHeader(u.text)) =>
               /\ nret.custom_data.sent
               /\ nret.custom_data.data = B64(CloudConfig \o <<"\n">> \o u.text)
        /\ (Truthy(u) /\ HasHeader(u.text)) =>
               /\ nret.custom_data.sent
               /\ nret.custom_data.data = B64(u.text)
        /\ nret.again = nret.ud
        /\ ~Truthy(u) => ~nret.custom_data.sent

\* User data that is a shell script of more than its first two characters.
C26_Witness ==
    /\ nret.op = "create_vm"
    /\ StartsWith(nret.user_data.text, Shebang)
    /\ Len(nret.user_data.text) > Len(Shebang)
    /\ nret.custom_data.sent
    /\ nret.custom_data.data = B64(nret.user_data.text)

----------------------------------------------------------------------------
(* SpecDefaultFault: get_or_create_default when a backend call fails *)

\* The steps at which a call asks the backend to create or change
\* something.
FailPoints ==
    {"create_network", "create_subnet", "create_network_os",
     "create_subnet_os", "create_router", "attach_subnet", "attach_gateway"}

\* What the call gives its caller when the backend refuses a request:
\* OpenStack catches NeutronClientException and returns None, Azure lets
\* CloudError through.
DefaultFailure(prov) ==
    IF prov = "openstack" THEN [kind |-> "none", id |-> None]
    ELSE Raised("CloudError")

\* The backend refuses the request caller c is about to make; what the
\* call has created stays.
DFail(c) ==
    /\ dcall[c].pc \in FailPoints
    /\ DReturn(c, DefaultFailure(dprov), dcall[c].created)
    /\ UNCHANGED <<dprov, nets, subnets, routers>>
    /\ UNCHANGED <<entityVars, pagingVars, keyVars, instVars, namedVars>>

NextDefaultFault == \E c \in Callers : DCall(c) \/ DStep(c) \/ DFail(c)

SpecDefaultFault == InitDefault /\ [][NextDefaultFault]_vars

\* C29: after any sequence of get_or_create_default calls, some of which
\* fail part-way, the backend holds at most one default network and at
\* most one default subnet, and a call that succeeds returns a subnet of
\* that default network.
C29_OneDefaultAfterFailures ==
    /\ Cardinality(DefaultNets) <= 1
    /\ Cardinality(DefaultSubnets) <= 1
    /\ \A i \in 1..Len(drets) :
           drets[i].kind = "resource" =>
               \E x \in DefaultSubnets, n \in DefaultNets :
                   x.id = drets[i].id /\ x.net = n.id

----------------------------------------------------------------------------
(* SpecKeyRace: key-pair creates of two callers that interleave *)

\* The callers' creates interleave at every call to the store.
NextKeyRace ==
    \E c \in Callers :
        \/ \E name \in KeyNames : KpBegin(c, name)
        \/ KpCheck(c)
        \/ KpInsert(c)
        \/ KpReget(c)
        \/ KpNova(c)

SpecKeyRace == InitKeyPair /\ [][NextKeyRace]_vars

\* C30: of two concurrent AzureKeyPairService.create(name) calls with the
\* same name at most one succeeds, and the store never holds two key-pair
\* entities of that name.
C30_KeyPairNameUnique ==
    kprov = "azure" =>
        /\ \A e, f \in keys : e.name = f.name => e = f
        /\ \A c, o \in Callers :
               (/\ c # o
                /\ kcall[c].pc = "done" /\ kcall[o].pc = "done"
                /\ kcall[c].name = kcall[o].name
                /\ kcall[c].out.kind = "resource") =>
                   kcall[o].out.kind # "resource"

=============================================================================
